---- MODULE Spec2Model ----
(***************************************************************************)
(* A state-machine model of the resilience layer, the AI review retry      *)
(* loop and the GitHub cache of the intern-platform backend.               *)
(*                                                                         *)
(*   backend/app/utils/resilience.py      CircuitBreaker, with_retry,      *)
(*                                        with_circuit_breaker, registry   *)
(*   backend/app/services/ai_reviewer.py  ai_circuit, review_code_quality  *)
(*   backend/app/services/github_cache.py GitHubCache                      *)
(*   backend/app/services/commit_analyzer.py  analyze_commits              *)
(*                                                                         *)
(* Time is an integer number of seconds (datetime.now()).                  *)
(***************************************************************************)
EXTENDS Integers, Sequences, FiniteSets, TLC

(***************************************************************************)
(* Bounds of the model.                                                    *)
(***************************************************************************)
\* the clock stops advancing at MaxTime seconds
MaxTime == 60
\* failure_count is not incremented past this value (guard of every failure)
MaxFailures == 7
\* calls the executor threads start, in all
MaxCalls == 2

\* coroutines calling a function wrapped by with_circuit_breaker (async)
Callers == {"c1", "c2", "c3"}
\* executor threads (run_in_executor) running synchronous code
Threads == {"t1", "t2"}

(***************************************************************************)
(* resilience.py: CircuitState and CircuitBreaker                          *)
(***************************************************************************)
CLOSED == "closed"
OPEN == "open"
HALF_OPEN == "half_open"
CircuitState == {CLOSED, OPEN, HALF_OPEN}

\* Optional[datetime] = None
None == -1

\* the dataclass's defaults (resilience.py:39-40)
default_failure_threshold == 3
default_recovery_timeout == 30

\* the dataclass constructor: a new breaker is closed, with no failure
CircuitBreaker(name, failure_threshold, recovery_timeout) ==
    [name |-> name,
     failure_threshold |-> failure_threshold,
     recovery_timeout |-> recovery_timeout,
     state |-> CLOSED,
     failure_count |-> 0,
     last_failure_time |-> None]

\* async can_execute, under self._lock: the breaker afterwards and the answer
can_execute(cb, t) ==
    IF cb.state = CLOSED
    THEN [cb |-> cb, ret |-> TRUE]
    ELSE IF cb.state = OPEN
    THEN IF cb.last_failure_time # None
            /\ t - cb.last_failure_time >= cb.recovery_timeout
         THEN [cb |-> [cb EXCEPT !.state = HALF_OPEN], ret |-> TRUE]
         ELSE [cb |-> cb, ret |-> FALSE]
    ELSE \* HALF_OPEN - allow one test call
         [cb |-> cb, ret |-> TRUE]

\* async record_success, under self._lock
record_success(cb) ==
    [cb EXCEPT !.failure_count = 0, !.state = CLOSED]

\* record_failure with a strict comparison against the threshold
record_failure_strict(cb, t) ==
    LET c1 == [cb EXCEPT !.failure_count = @ + 1, !.last_failure_time = t]
    IN  IF c1.state = HALF_OPEN
        THEN [c1 EXCEPT !.state = OPEN]
        ELSE IF c1.failure_count > c1.failure_threshold
        THEN [c1 EXCEPT !.state = OPEN]
        ELSE c1

\* async record_failure, under self._lock
record_failure(cb, t) ==
    LET c1 == [cb EXCEPT !.failure_count = @ + 1, !.last_failure_time = t]
    IN  IF c1.state = HALF_OPEN
        THEN [c1 EXCEPT !.state = OPEN]
        ELSE IF c1.failure_count >= c1.failure_threshold
        THEN [c1 EXCEPT !.state = OPEN]
        ELSE c1

\* the is_open property
is_open(cb) == cb.state = OPEN

\* reset()
reset(cb) ==
    [cb EXCEPT !.state = CLOSED, !.failure_count = 0, !.last_failure_time = None]

(***************************************************************************)
(* resilience.py: the registry, and ai_reviewer.py's breaker               *)
(***************************************************************************)
AI_NAME == "anthropic_api"
\* ai_reviewer.py:25-26
ai_failure_threshold == 3
ai_recovery_timeout == 60

\* one step of the clock, in seconds: the shorter recovery timeout
TickSeconds == default_recovery_timeout

\* get_circuit_breaker: get or create a breaker by name
get_circuit_breaker(reg, name, failure_threshold, recovery_timeout) ==
    IF name \in DOMAIN reg
    THEN reg
    ELSE [n \in DOMAIN reg \cup {name} |->
            IF n = name
            THEN CircuitBreaker(name, failure_threshold, recovery_timeout)
            ELSE reg[n]]

\* reset_all_circuits
reset_all_circuits(reg) == [n \in DOMAIN reg |-> reset(reg[n])]

(***************************************************************************)
(* Python values handed to the GitHub cache, and their JSON text.          *)
(* A value is tagged with its Python type; a dict is a function from       *)
(* tagged keys to values.                                                  *)
(***************************************************************************)
PyNone == [t |-> "none", v |-> "None"]
PyBool(b) == [t |-> "bool", v |-> b]
PyInt(n) == [t |-> "int", v |-> n]
PyStr(s) == [t |-> "str", v |-> s]
PyDict(f) == [t |-> "dict", v |-> f]
PyList(q) == [t |-> "list", v |-> q]

\* `if x:` on a Python value
truthy(x) ==
    CASE x.t = "none" -> FALSE
      [] x.t = "bool" -> x.v
      [] x.t = "int" -> x.v # 0
      [] x.t = "str" -> x.v # ""
      [] x.t \in {"dict", "list"} -> DOMAIN x.v # {}
      [] OTHER -> TRUE

\* json.dumps writes every key of an object as a string: an int key
\* becomes its decimal text
json_key(k) == IF k.t = "int" THEN ToString(k.v) ELSE k.v

\* json.dumps(value, default=str): a dict becomes an object, a list an
\* array, a value json has no form for becomes its str()
RECURSIVE json_dumps(_)
json_dumps(x) ==
    CASE x.t = "dict" ->
            [t |-> "object",
             v |-> [s \in {json_key(k) : k \in DOMAIN x.v} |->
                      json_dumps(x.v[CHOOSE k \in DOMAIN x.v : json_key(k) = s])]]
      [] x.t = "list" ->
            [t |-> "array", v |-> [i \in DOMAIN x.v |-> json_dumps(x.v[i])]]
      [] x.t \in {"none", "bool", "int", "str"} -> x
      [] OTHER -> PyStr(x.v)

\* json.loads: an object becomes a dict whose keys are all str, an array
\* a list
RECURSIVE json_loads(_)
json_loads(j) ==
    CASE j.t = "object" ->
            PyDict([k \in {PyStr(s) : s \in DOMAIN j.v} |-> json_loads(j.v[k.v])])
      [] j.t = "array" -> PyList([i \in DOMAIN j.v |-> json_loads(j.v[i])])
      [] OTHER -> j

(***************************************************************************)
(* The Redis commands the cache issues.  An entry is the JSON text and     *)
(* the server time at which it expires.                                    *)
(***************************************************************************)
NoEntry == [val |-> PyNone, expires |-> 0]

\* GET: the text of a live entry, or nil
redis_get(store, key, time) ==
    IF store[key] # NoEntry /\ time < store[key].expires
    THEN [found |-> TRUE, data |-> store[key].val]
    ELSE [found |-> FALSE, data |-> PyNone]

\* SETEX key seconds value
redis_setex(store, key, seconds, value, time) ==
    [store EXCEPT ![key] = [val |-> value, expires |-> time + seconds]]

\* DEL key
redis_delete(store, key) == [store EXCEPT ![key] = NoEntry]

(***************************************************************************)
(* GitHubCache.  `up` tells whether the store answers this command; a      *)
(* command on a store that does not answer raises inside the try block.    *)
(***************************************************************************)
ANALYSIS_TTL == 86400
RAW_COMMITS_TTL == 21600

Raised == [raised |-> TRUE, ret |-> PyNone]
Returned(r) == [raised |-> FALSE, ret |-> r]

\* _get_cache_key
get_cache_key(owner, repo, cache_type) == <<"github", cache_type, owner, repo>>

\* the try block shared by get_commit_analysis and get_raw_commits
cache_get_try(store, up, time, key) ==
    IF ~up
    THEN Raised
    ELSE LET got == redis_get(store, key, time)
         IN  IF got.found THEN Returned(json_loads(got.data)) ELSE Returned(PyNone)

\* get_commit_analysis with its except clause removed
get_commit_analysis_unguarded(store, up, time, owner, repo) ==
    cache_get_try(store, up, time, get_cache_key(owner, repo, "analysis"))

\* get_commit_analysis
get_commit_analysis(store, up, time, owner, repo) ==
    LET r == cache_get_try(store, up, time, get_cache_key(owner, repo, "analysis"))
    IN  IF r.raised THEN Returned(PyNone) ELSE r

\* get_raw_commits
get_raw_commits(store, up, time, owner, repo) ==
    LET r == cache_get_try(store, up, time, get_cache_key(owner, repo, "raw_commits"))
    IN  IF r.raised THEN Returned(PyNone) ELSE r

\* the try block shared by set_commit_analysis and set_raw_commits;
\* SETEX rejects an expire time that is not positive
cache_set_try(store, up, time, key, seconds, value) ==
    IF ~up \/ seconds <= 0
    THEN [store |-> store, out |-> Raised]
    ELSE [store |-> redis_setex(store, key, seconds, json_dumps(value), time),
          out |-> Returned(PyBool(TRUE))]

\* set_commit_analysis
set_commit_analysis(store, up, time, owner, repo, analysis) ==
    LET r == cache_set_try(store, up, time, get_cache_key(owner, repo, "analysis"),
                           ANALYSIS_TTL, analysis)
    IN  IF r.out.raised THEN [r EXCEPT !.out = Returned(PyBool(FALSE))] ELSE r

\* set_raw_commits: `ttl or self.RAW_COMMITS_TTL`
set_raw_commits(store, up, time, owner, repo, commits_data, ttl) ==
    LET cache_ttl == IF ttl = None \/ ttl = 0 THEN RAW_COMMITS_TTL ELSE ttl
        r == cache_set_try(store, up, time, get_cache_key(owner, repo, "raw_commits"),
                           cache_ttl, commits_data)
    IN  IF r.out.raised THEN [r EXCEPT !.out = Returned(PyBool(FALSE))] ELSE r

\* invalidate: one type's key, or both keys when cache_type is None or
\* empty; up2 tells whether the store still answers the second DEL
invalidate(store, up, up2, owner, repo, cache_type) ==
    IF ~up
    THEN [store |-> store, out |-> Returned(PyBool(FALSE))]
    ELSE IF cache_type # ""
    THEN [store |-> redis_delete(store, get_cache_key(owner, repo, cache_type)),
          out |-> Returned(PyBool(TRUE))]
    ELSE LET first == redis_delete(store, get_cache_key(owner, repo, "analysis"))
         IN  IF ~up2
             THEN [store |-> first, out |-> Returned(PyBool(FALSE))]
             ELSE [store |-> redis_delete(first, get_cache_key(owner, repo, "raw_commits")),
                   out |-> Returned(PyBool(TRUE))]

(***************************************************************************)
(* WebSocketManager: the connection table and the subscriber sets.  The    *)
(* body of each `async with self._lock` has no await in it, so each        *)
(* registry method is one step.                                            *)
(***************************************************************************)
Conns == {"c1", "c2"}
Subs == {"s1", "s2"}
Bcasts == {"b1", "b2"}

\* ConnectionInfo(websocket=websocket)
ConnectionInfo == [submission_ids |-> {}]

\* self._subscriptions.get(submission_id, set())
subscribers(subs, s) == IF s \in DOMAIN subs THEN subs[s] ELSE {}

\* connect
connect(conns, c) == (c :> ConnectionInfo) @@ conns

\* disconnect that only deletes the connection
disconnect_connection_only(conns, subs, c) ==
    [connections |-> [d \in DOMAIN conns \ {c} |-> conns[d]], subscriptions |-> subs]

\* disconnect: the connection leaves every subscriber set named in its
\* submission_ids, a set left empty is deleted, then the connection is deleted
disconnect(conns, subs, c) ==
    IF c \notin DOMAIN conns
    THEN [connections |-> conns, subscriptions |-> subs]
    ELSE LET ids == conns[c].submission_ids
             kept == {s \in DOMAIN subs : ~(s \in ids /\ subs[s] \ {c} = {})}
         IN  [connections |-> [d \in DOMAIN conns \ {c} |-> conns[d]],
              subscriptions |-> [s \in kept |-> IF s \in ids THEN subs[s] \ {c}
                                                 ELSE subs[s]]]

\* subscribe that does not look the connection up
subscribe_unchecked(conns, subs, c, s) ==
    [connections |->
        IF c \in DOMAIN conns
        THEN [conns EXCEPT ![c].submission_ids = conns[c].submission_ids \cup {s}]
        ELSE conns,
     subscriptions |-> (s :> (subscribers(subs, s) \cup {c})) @@ subs]

\* subscribe
subscribe(conns, subs, c, s) ==
    IF c \notin DOMAIN conns
    THEN [connections |-> conns, subscriptions |-> subs]
    ELSE [connections |->
             [conns EXCEPT ![c].submission_ids = conns[c].submission_ids \cup {s}],
          subscriptions |-> (s :> (subscribers(subs, s) \cup {c})) @@ subs]

\* unsubscribe
unsubscribe(conns, subs, c, s) ==
    [connections |->
        IF c \in DOMAIN conns
        THEN [conns EXCEPT ![c].submission_ids = conns[c].submission_ids \ {s}]
        ELSE conns,
     subscriptions |->
        IF s \in DOMAIN subs THEN [subs EXCEPT ![s] = subs[s] \ {c}] ELSE subs]

(***************************************************************************)
(* scorer.py: the traditional scoring path (the worker builds its Scorer   *)
(* without rules_text).  A Python operation that raises yields PyRaise.    *)
(***************************************************************************)
PyRaise == [t |-> "raise", v |-> "TypeError"]

\* `x * 2`: an int doubles, a str or a list repeats, None raises TypeError
py_double(x) ==
    CASE x.t = "int" -> PyInt(x.v * 2)
      [] x.t = "str" -> PyStr(x.v \o x.v)
      [] x.t = "list" -> PyList(x.v \o x.v)
      [] OTHER -> PyRaise

\* sum(d.values()): starts from the int 0, so any value that is not a number raises
RECURSIVE py_sum_over(_, _)
py_sum_over(d, keys) ==
    IF keys = {} THEN PyInt(0)
    ELSE LET k == CHOOSE x \in keys : TRUE
             rest == py_sum_over(d, keys \ {k})
         IN  IF rest.t = "raise" \/ d[k].t # "int" THEN PyRaise
             ELSE PyInt(rest.v + d[k].v)

\* list.extend(x): a list is appended, anything that is not iterable raises
py_extend(q, x) == IF x.t = "list" THEN PyList(q \o x.v) ELSE PyRaise

\* q[:n]
py_head(q, n) == IF Len(q) <= n THEN q ELSE SubSeq(q, 1, n)

AIKeys == {"namingConventions", "modularity", "errorHandling", "security"}
ScoreKeys == AIKeys \cup {"folderStructure", "fileSeparation", "frontendTech",
                          "backendTech", "databaseTech", "deployment"}

\* a fallback that keeps its reason out of the verdict
default_quality_result_unexplained(reason) ==
    [score |-> [k \in AIKeys |-> PyInt(3)],
     strengths |-> PyList(<<"Code submitted for review">>),
     weaknesses |-> PyList(<<"Automated analysis unavailable">>),
     fallback |-> TRUE,
     fallback_reason |-> ""]

\* ai_reviewer.py: the verdict returned in place of the provider's
default_quality_result(reason) ==
    [score |-> [k \in AIKeys |-> PyInt(3)],
     strengths |-> PyList(<<"Code submitted for review">>),
     weaknesses |-> PyList(<<"Automated analysis unavailable", reason>>),
     fallback |-> TRUE,
     fallback_reason |-> reason]

\* quality.get(k, {}).get("score", 3)
quality_score(quality, k) ==
    IF k \in DOMAIN quality.score THEN quality.score[k] ELSE PyInt(3)

\* deployment_checker.py: check_deployment(hosted_url, None)
check_deployment(has_url, reachable) ==
    [hosted |-> [valid |-> has_url /\ reachable],
     deployment_score |-> IF has_url /\ reachable THEN 3 ELSE 0,
     flags |-> IF has_url /\ reachable THEN <<>>
               ELSE IF has_url THEN <<"DEPLOYMENT_NOT_ACCESSIBLE">>
               ELSE <<"NO_DEPLOYMENT">>]

analyze_frontend_tech(analysis) ==
    LET score == (IF analysis.bootstrap_linked THEN 3 ELSE 0)
               + (IF analysis.ajax_calls > 0 THEN 3 ELSE 0)
               + (IF analysis.localStorage THEN 2 ELSE 0)
               + (IF analysis.fileSeparation >= 7 THEN 2 ELSE 0)
    IN  IF score < 10 THEN score ELSE 10

analyze_backend_tech(analysis) ==
    LET score == (IF analysis.prepared_statements > 0 THEN 5 ELSE 0)
               + (IF analysis.password_hashing THEN 3 ELSE 0)
               + (IF analysis.input_sanitization THEN 2 ELSE 0)
    IN  IF score < 10 THEN score ELSE 10

\* analyze_databases has no "localStorage" entry, so its point is never given
analyze_database_tech(analysis) ==
    LET score == (IF analysis.mysql THEN 4 ELSE 0)
               + (IF analysis.mongodb THEN 3 ELSE 0)
               + (IF analysis.redis THEN 2 ELSE 0)
    IN  IF score < 10 THEN score ELSE 10

\* a sub-score that raised leaves the whole dict unbuilt
calculate_traditional_scores(analysis, ai_quality, deployment_result) ==
    LET scores ==
          [k \in ScoreKeys |->
             CASE k \in AIKeys -> py_double(quality_score(ai_quality, k))
               [] k = "folderStructure" -> PyInt(analysis.folderStructure)
               [] k = "fileSeparation" -> PyInt(analysis.fileSeparation)
               [] k = "frontendTech" -> PyInt(analyze_frontend_tech(analysis))
               [] k = "backendTech" -> PyInt(analyze_backend_tech(analysis))
               [] k = "databaseTech" -> PyInt(analyze_database_tech(analysis))
               [] OTHER -> PyInt(deployment_result.deployment_score * 2)]
    IN  IF \E k \in ScoreKeys : scores[k].t = "raise" THEN PyRaise ELSE PyDict(scores)

\* the totals t for which the double int((t / max_score) * 100) is t - 1
FloatLoss == {29, 57, 58}

\* int(x): an int is itself, None raises TypeError
py_int(x) == IF x.t = "int" THEN x ELSE PyRaise

\* min(100, max(0, x))
clamp_0_100(x) == IF x > 100 THEN 100 ELSE IF x < 0 THEN 0 ELSE x

calculate_overall_score(scores) ==
    LET total == py_sum_over(scores, DOMAIN scores)
        max_score == Cardinality(DOMAIN scores) * 10
        overall == IF total.v > 0
                   THEN IF max_score = 100 /\ total.v \in FloatLoss
                        THEN total.v - 1
                        ELSE (total.v * 100) \div max_score
                   ELSE 0
    IN  IF "overallScore" \in DOMAIN scores
        THEN LET given == py_int(scores["overallScore"])
             IN  IF given.t = "raise" THEN PyRaise ELSE PyInt(clamp_0_100(given.v))
        ELSE IF total.t = "raise" THEN PyRaise
        ELSE PyInt(clamp_0_100(overall))

GRADE_THRESHOLDS ==
    <<[threshold |-> 90, grade |-> "A+", recommendation |-> "Strong interview candidate"],
      [threshold |-> 80, grade |-> "A", recommendation |-> "Interview recommended"],
      [threshold |-> 70, grade |-> "B", recommendation |-> "Consider for interview"],
      [threshold |-> 60, grade |-> "C", recommendation |-> "Request more information"],
      [threshold |-> 50, grade |-> "D", recommendation |-> "Reject with feedback"],
      [threshold |-> 0, grade |-> "F", recommendation |-> "Auto-reject"]>>

\* a grade loop whose comparison is strict
first_threshold_above(overall_score) ==
    LET reached == {i \in 1..Len(GRADE_THRESHOLDS) :
                       overall_score > GRADE_THRESHOLDS[i].threshold}
    IN  IF reached = {} THEN [threshold |-> 0, grade |-> "F", recommendation |-> ""]
        ELSE GRADE_THRESHOLDS[CHOOSE i \in reached : \A j \in reached : i <= j]

\* the loop over GRADE_THRESHOLDS that breaks at the first threshold the score
\* reaches; a score that reaches none leaves the defaults
first_threshold(overall_score) ==
    LET reached == {i \in 1..Len(GRADE_THRESHOLDS) :
                       overall_score >= GRADE_THRESHOLDS[i].threshold}
    IN  IF reached = {} THEN [threshold |-> 0, grade |-> "F", recommendation |-> ""]
        ELSE GRADE_THRESHOLDS[CHOOSE i \in reached : \A j \in reached : i <= j]

grade_of(overall_score) == first_threshold(overall_score).grade

\* the flags a condition contributes
flag_if(cond, flag) == IF cond THEN <<flag>> ELSE <<>>

\* FORM_SUBMISSION_USED and SQL_INJECTION_RISK are among the analyzers'
\* issues when forms, or raw queries, were found and no AJAX, or prepared
\* statement, was
generate_traditional_flags(analysis, risk_high) ==
    flag_if(analysis.bootstrap = 0, "NO_BOOTSTRAP")
    \o flag_if(analysis.form_submissions > 0 /\ analysis.ajax_calls = 0,
               "FORM_SUBMISSION_USED")
    \o flag_if(analysis.raw_sql_queries > 0 /\ analysis.prepared_statements = 0,
               "SQL_INJECTION_RISK")
    \o flag_if(~analysis.mysql, "NO_MYSQL")
    \o flag_if(~analysis.mongodb, "NO_MONGODB")
    \o flag_if(~analysis.redis, "NO_REDIS")
    \o flag_if(analysis.fileSeparation < 7, "CODE_MIXING")
    \o flag_if(analysis.folderStructure < 7, "POOR_FOLDER_STRUCTURE")
    \o flag_if(risk_high, "AI_GENERATED_HIGH")

get_strengths(analysis, ai_quality, deployment_result) ==
    LET first == py_extend(<<>>, ai_quality.strengths)
    IN  IF first.t = "raise" THEN PyRaise
        ELSE PyList(py_head(
               first.v
               \o flag_if(analysis.fileSeparation = 10, "Excellent file organization")
               \o flag_if(analysis.prepared_statements > 0, "Uses prepared statements")
               \o flag_if(analysis.ajax_calls > 0, "Implements AJAX")
               \o flag_if(analysis.bootstrap_linked, "Uses CSS framework")
               \o flag_if(analysis.mysql, "SQL database implemented")
               \o flag_if(analysis.mongodb, "NoSQL database implemented")
               \o flag_if(analysis.redis, "Caching layer implemented (Redis)")
               \o flag_if(deployment_result.hosted.valid, "Project successfully deployed"),
               5))

get_weaknesses(analysis, ai_quality, deployment_result) ==
    LET first == py_extend(<<>>, ai_quality.weaknesses)
    IN  IF first.t = "raise" THEN PyRaise
        ELSE PyList(py_head(
               first.v
               \o flag_if(analysis.fileSeparation < 7, "Poor code organization")
               \o flag_if(analysis.form_submissions > 0, "Uses traditional form submission")
               \o flag_if(analysis.bootstrap < 4, "No CSS framework used")
               \o flag_if(analysis.raw_sql_queries > 0 /\ analysis.prepared_statements = 0,
                          "Potential SQL injection vulnerability")
               \o flag_if(~deployment_result.hosted.valid, "No working deployment provided")
               \o flag_if(\E i \in 1..Len(deployment_result.flags) :
                             deployment_result.flags[i] = "DEPLOYMENT_NOT_ACCESSIBLE",
                          "Deployment URL is not accessible"),
               5))

\* the dict {}
EmptyDict == [k \in {} |-> PyNone]

\* the defaults of `result` at the top of score_submission; "" stands for None
ResultDefaults ==
    [status |-> "processing", error |-> "", overall_score |-> 0, grade |-> "F",
     scores |-> EmptyDict, flags |-> <<>>, strengths |-> <<>>, weaknesses |-> <<>>]

\* steps 8 to 12 of score_submission and its `except Exception`: each
\* assignment to `result` made before the first raise stays in the result
score_steps(res, analysis, ai_evaluation, risk_high, deployment_result) ==
    LET failed_at(r) == [r EXCEPT !.status = "failed", !.error = "TypeError"]
        scores == calculate_traditional_scores(analysis, ai_evaluation, deployment_result)
        r1 == [res EXCEPT !.scores = scores.v]
        flags == generate_traditional_flags(analysis, risk_high) \o deployment_result.flags
        r2 == [r1 EXCEPT !.flags = flags]
        overall == calculate_overall_score(scores.v)
        r3 == [r2 EXCEPT !.overall_score = overall.v, !.grade = grade_of(overall.v)]
        strengths == get_strengths(analysis, ai_evaluation, deployment_result)
        r4 == [r3 EXCEPT !.strengths = strengths.v]
        weaknesses == get_weaknesses(analysis, ai_evaluation, deployment_result)
        r5 == [r4 EXCEPT !.weaknesses = weaknesses.v]
    IN  IF scores.t = "raise" THEN failed_at(res)
        ELSE IF overall.t = "raise" THEN failed_at(r2)
        ELSE IF strengths.t = "raise" THEN failed_at(r3)
        ELSE IF weaknesses.t = "raise" THEN failed_at(r4)
        ELSE [r5 EXCEPT !.status = "completed"]

VARIABLES
    circuit_breakers,  \* _circuit_breakers: name -> CircuitBreaker
    now,               \* datetime.now(), in seconds
    apc,               \* async caller -> where it is in async_wrapper
    consec,            \* history: failure_count increments since the last success or reset
    probes,            \* history: calls admitted since open -> half_open, outcome pending
    tpc,               \* executor thread -> where it is in its call
    attempt,           \* thread -> the retry loop's `attempt`
    tmp,               \* thread -> failure_count as loaded by `failure_count += 1`
    err,               \* thread -> the outcome of its last invocation
    result,            \* thread -> what its call returned or raised
    invocations,       \* history: thread -> invocations of the operation in this call
    recorded,          \* history: thread -> failures this call recorded on the breaker
    slept,             \* history: thread -> sleeps of this call
    calls,             \* history: calls started by executor threads
    store,             \* Redis: cache key -> entry
    redis_up,          \* whether the store answers commands
    redis_time,        \* the Redis server's clock, in seconds
    written,           \* history: cache key -> the last value set and not invalidated
    last_op,           \* history: the last cache operation and what it gave its caller
    arun,              \* analyze_commits run -> where it is
    aresult,           \* analyze_commits run -> its `result`, then what it returned
    connections,       \* _connections: connection id -> ConnectionInfo
    subscriptions,     \* _subscriptions: submission id -> set of connection ids
    used,              \* the connection ids uuid4 has handed out
    alive,             \* connection id -> whether a send on its websocket succeeds
    ready,             \* broadcast_progress calls scheduled on the loop, oldest first
    published,         \* history: number of broadcast_progress calls so far
    bpc,               \* broadcast coroutine -> where it is in broadcast_progress
    bev,               \* broadcast coroutine -> its message_data
    todo,              \* broadcast coroutine -> subscriber_ids not yet iterated
    cur,               \* broadcast coroutine -> the connection its send_json is for
    waiting,           \* connection id -> the coroutines inside its send_json, oldest first
    sendok,            \* broadcast coroutine -> whether that send_json returns
    failed,            \* broadcast coroutine -> its `disconnected` list
    snap,              \* history: broadcast coroutine -> subscriber_ids as copied
    inbox,             \* history: connection id -> the progress events sent to it
    left,              \* history: connections that have unsubscribed from Watched or disconnected
    sub,               \* the submission's row in the database
    sid,               \* which submission the row is
    wpc,               \* where process_submission is
    spc,               \* where score_submission is
    score_result,      \* score_submission's `result`
    ctx,               \* score_submission's locals, and what its steps met
    reported,          \* history: the scorer's _report_progress calls of this run
    events,            \* history: the broadcast_progress calls of this run
    runs,              \* history: process_submission calls
    triggers,          \* history: trigger_scoring requests
    fn,                \* the analysis function last called
    arg,               \* what it was called on
    ret,               \* what it returned
    batch,             \* the batch's row in the database
    rows,              \* batch submission -> the status of its row, "none" before it exists
    tasks,             \* the background tasks the batch routes have scheduled
    rpc,               \* process_submission invocation on one submission id -> where it is
    workdir,           \* repos_dir/<submission_id>: absent, or the invocation whose clone it is
    row                \* that submission's row: its status, and the invocation that wrote it

breaker_vars == <<circuit_breakers, now, consec, probes>>
async_vars == <<apc>>
thread_vars == <<tpc, attempt, tmp, err, result, invocations, recorded, slept, calls>>
cache_vars == <<store, redis_up, redis_time, written, last_op, arun, aresult>>
registry_vars == <<connections, subscriptions>>
hub_vars == <<connections, subscriptions, used, alive, ready, published,
              bpc, bev, todo, cur, waiting, sendok, failed, snap, inbox, left>>
run_vars == <<sub, sid, wpc, spc, score_result, ctx, reported, events, runs, triggers>>
call_vars == <<fn, arg, ret>>
batch_vars == <<batch, rows, tasks>>
rerun_vars == <<rpc, workdir, row>>
other_vars == <<cache_vars, hub_vars, run_vars, call_vars, batch_vars, rerun_vars>>
non_cache_vars ==
    <<breaker_vars, async_vars, thread_vars, hub_vars, run_vars, call_vars, batch_vars, rerun_vars>>
non_hub_vars ==
    <<breaker_vars, async_vars, thread_vars, cache_vars, run_vars, call_vars, batch_vars, rerun_vars>>
non_run_vars ==
    <<breaker_vars, async_vars, thread_vars, cache_vars, hub_vars, call_vars, batch_vars, rerun_vars>>
non_batch_vars ==
    <<breaker_vars, async_vars, thread_vars, cache_vars, hub_vars, run_vars, call_vars,
      rerun_vars>>
non_rerun_vars ==
    <<breaker_vars, async_vars, thread_vars, cache_vars, hub_vars, run_vars, call_vars,
      batch_vars>>
non_call_vars ==
    <<breaker_vars, async_vars, thread_vars, cache_vars, hub_vars, run_vars, batch_vars, rerun_vars>>
vars == <<circuit_breakers, now, apc, consec, probes,
          tpc, attempt, tmp, err, result, invocations, recorded, slept, calls,
          store, redis_up, redis_time, written, last_op, arun, aresult,
          connections, subscriptions, used, alive, ready, published,
          bpc, bev, todo, cur, waiting, sendok, failed, snap, inbox, left,
          sub, sid, wpc, spc, score_result, ctx, reported, events, runs, triggers,
          fn, arg, ret, batch, rows, tasks, rpc, workdir, row>>

ai_circuit == circuit_breakers[AI_NAME]

\* the registry with the breaker of AI_NAME replaced by cb
with_circuit(reg, cb) == [reg EXCEPT ![AI_NAME] = cb]

(***************************************************************************)
(* The clock, and the administrative reset                                 *)
(***************************************************************************)
Tick ==
    /\ now + TickSeconds <= MaxTime
    /\ now' = now + TickSeconds
    /\ UNCHANGED <<circuit_breakers, apc, consec, probes, thread_vars, other_vars>>

ResetAll ==
    /\ circuit_breakers' = reset_all_circuits(circuit_breakers)
    /\ circuit_breakers' # circuit_breakers
    /\ consec' = 0
    /\ probes' = 0
    /\ UNCHANGED <<now, apc, thread_vars, other_vars>>

(***************************************************************************)
(* resilience.py: with_circuit_breaker.async_wrapper.  The event loop runs *)
(* one coroutine at a time and the lock is never held across an await, so  *)
(* each breaker method is one step; the wrapped function suspends between  *)
(* its invocation and its outcome.                                         *)
(***************************************************************************)
\* `if not await circuit.can_execute()`: fallback, CircuitBreakerOpenError, or func
async_wrapper_enter(c, has_fallback) ==
    /\ apc[c] = "idle"
    /\ LET r == can_execute(ai_circuit, now)
       IN  /\ circuit_breakers' = with_circuit(circuit_breakers, r.cb)
           /\ apc' = [apc EXCEPT ![c] =
                        IF r.ret THEN "in_func"
                        ELSE IF has_fallback THEN "fallback" ELSE "open_error"]
           /\ probes' = IF r.ret /\ r.cb.state = HALF_OPEN THEN probes + 1 ELSE probes
    /\ UNCHANGED <<now, consec, thread_vars, other_vars>>

\* `result = await func(...)`, `await circuit.record_success()`, `return result`
async_wrapper_success(c) ==
    /\ apc[c] = "in_func"
    /\ circuit_breakers' = with_circuit(circuit_breakers, record_success(ai_circuit))
    /\ apc' = [apc EXCEPT ![c] = "returned"]
    /\ consec' = 0
    /\ probes' = 0
    /\ UNCHANGED <<now, thread_vars, other_vars>>

\* `except Exception`: `await circuit.record_failure()`, `raise`
async_wrapper_failure(c) ==
    /\ apc[c] = "in_func"
    /\ ai_circuit.failure_count < MaxFailures
    /\ circuit_breakers' = with_circuit(circuit_breakers, record_failure(ai_circuit, now))
    /\ apc' = [apc EXCEPT ![c] = "raised"]
    /\ consec' = consec + 1
    /\ probes' = 0
    /\ UNCHANGED <<now, thread_vars, other_vars>>

\* the caller's coroutine ends; the caller may call again
async_wrapper_exit(c) ==
    /\ apc[c] \in {"fallback", "open_error", "returned", "raised"}
    /\ apc' = [apc EXCEPT ![c] = "idle"]
    /\ UNCHANGED <<breaker_vars, thread_vars, other_vars>>

\* no executor thread has started a call
InitThreads ==
    /\ tpc = [t \in Threads |-> "idle"]
    /\ attempt = [t \in Threads |-> 0]
    /\ tmp = [t \in Threads |-> 0]
    /\ err = [t \in Threads |-> "none"]
    /\ result = [t \in Threads |-> "none"]
    /\ invocations = [t \in Threads |-> 0]
    /\ recorded = [t \in Threads |-> 0]
    /\ slept = [t \in Threads |-> 0]
    /\ calls = 0

\* the repository the cache is asked about, and its two keys
Owner == "octo"
Repo == "app"
CacheTypes == {"analysis", "raw_commits"}
CacheKeys == {get_cache_key(Owner, Repo, ct) : ct \in CacheTypes}
Runs == {"r1"}

\* the process_submission invocations one submission id is given
Workers == {"w1", "w2"}

\* the submissions a batch is given
BatchSubs == {"b1", "b2", "b3"}

NoWrite == [val |-> PyNone, at |-> 0, ttl |-> 0]
NoOp == [op |-> "none", by |-> "none", key |-> <<>>, up |-> TRUE,
         out |-> Returned(PyNone), seq |-> 0]

\* an empty store that answers, and no analysis under way
InitCache ==
    /\ store = [k \in CacheKeys |-> NoEntry]
    /\ redis_up = TRUE
    /\ redis_time = 0
    /\ written = [k \in CacheKeys |-> NoWrite]
    /\ last_op = NoOp
    /\ arun = [r \in Runs |-> "idle"]
    /\ aresult = [r \in Runs |-> PyNone]

NoEvent == [sub |-> "none", n |-> 0]

\* nobody connected, nothing published
InitHub ==
    /\ connections = <<>>
    /\ subscriptions = <<>>
    /\ used = {}
    /\ alive = [c \in Conns |-> TRUE]
    /\ ready = <<>>
    /\ published = 0
    /\ bpc = [b \in Bcasts |-> "idle"]
    /\ bev = [b \in Bcasts |-> NoEvent]
    /\ todo = [b \in Bcasts |-> {}]
    /\ cur = [b \in Bcasts |-> "none"]
    /\ waiting = [c \in Conns |-> <<>>]
    /\ sendok = [b \in Bcasts |-> TRUE]
    /\ failed = [b \in Bcasts |-> <<>>]
    /\ snap = [b \in Bcasts |-> {}]
    /\ inbox = [c \in Conns |-> <<>>]
    /\ left = {}

\* what analyze_all found: PHP inside the one HTML page and nothing asked
\* for, or everything asked for
PoorAnalysis ==
    [folderStructure |-> 0, fileSeparation |-> 4, bootstrap |-> 0,
     bootstrap_linked |-> FALSE, ajax_calls |-> 0, form_submissions |-> 0,
     prepared_statements |-> 0, raw_sql_queries |-> 0, localStorage |-> FALSE,
     password_hashing |-> FALSE, input_sanitization |-> FALSE,
     mysql |-> FALSE, mongodb |-> FALSE, redis |-> FALSE]
GoodAnalysis ==
    [folderStructure |-> 10, fileSeparation |-> 10, bootstrap |-> 10,
     bootstrap_linked |-> TRUE, ajax_calls |-> 2, form_submissions |-> 0,
     prepared_statements |-> 1, raw_sql_queries |-> 0, localStorage |-> TRUE,
     password_hashing |-> TRUE, input_sanitization |-> TRUE,
     mysql |-> TRUE, mongodb |-> FALSE, redis |-> FALSE]
Analyses == {PoorAnalysis, GoodAnalysis}

\* routes/submissions.py create_submission: the row as it is inserted
NewSubmission ==
    [status |-> "pending", error_message |-> "", overall_score |-> 0, grade |-> "F",
     scores |-> EmptyDict, flags |-> <<>>, strengths |-> <<>>, weaknesses |-> <<>>]

\* the scorer's locals before any step has run
NoCtx ==
    [analysis |-> PoorAnalysis, ai_evaluation |-> default_quality_result("none"),
     ai |-> "none", invoked |-> 0, risk_high |-> FALSE,
     deployment |-> check_deployment(FALSE, FALSE), shot |-> "none", fatal |-> FALSE]

\* routes/batches.py create_batch: a pending batch, no submission added yet
InitBatch ==
    /\ batch = [status |-> "pending", total_submissions |-> 0,
                completed_submissions |-> 0, failed_submissions |-> 0]
    /\ rows = [s \in BatchSubs |-> "none"]
    /\ tasks = {}

\* routes/submissions.py create_submission: the row is pending, nothing has
\* been cloned for it and no process_submission has been called on it
InitRerun ==
    /\ rpc = [w \in Workers |-> "idle"]
    /\ workdir = "absent"
    /\ row = [status |-> "pending", by |-> "none"]

\* one submission, pending, its run not started
InitRun ==
    /\ sub = NewSubmission
    /\ sid = 1
    /\ wpc = "idle"
    /\ spc = "idle"
    /\ score_result = ResultDefaults
    /\ ctx = NoCtx
    /\ reported = <<>>
    /\ events = <<>>
    /\ runs = 0
    /\ triggers = 0
    /\ fn = "none"
    /\ arg = <<>>
    /\ ret = <<>>
    /\ InitBatch
    /\ InitRerun

(***************************************************************************)
(* The breaker under coroutines: any threshold up to the default, either   *)
(* recovery timeout.                                                       *)
(***************************************************************************)
InitBreaker ==
    /\ \E ft \in 1..default_failure_threshold :
       \E rt \in {default_recovery_timeout, ai_recovery_timeout} :
          circuit_breakers = get_circuit_breaker(<<>>, AI_NAME, ft, rt)
    /\ now = 0
    /\ apc = [c \in Callers |-> "idle"]
    /\ consec = 0
    /\ probes = 0
    /\ InitThreads
    /\ InitCache
    /\ InitHub
    /\ InitRun

NextBreaker ==
    \/ Tick
    \/ ResetAll
    \/ \E c \in Callers, fb \in BOOLEAN : async_wrapper_enter(c, fb)
    \/ \E c \in Callers : async_wrapper_success(c)
    \/ \E c \in Callers : async_wrapper_failure(c)
    \/ \E c \in Callers : async_wrapper_exit(c)

SpecBreaker == InitBreaker /\ [][NextBreaker]_vars

\* the breaker's state, and whether its recovery timeout has elapsed
cb_state == ai_circuit.state
cb_elapsed ==
    /\ ai_circuit.last_failure_time # None
    /\ now - ai_circuit.last_failure_time >= ai_circuit.recovery_timeout

(***************************************************************************)
(* C1: after failure_threshold consecutive recorded failures the breaker   *)
(* is open, and a guarded call made while it is open and the recovery      *)
(* timeout has not elapsed ends in the fallback or CircuitBreakerOpenError *)
(* without invoking the function and without changing the breaker.         *)
(***************************************************************************)
C1_OpenShortCircuits ==
    /\ [][(consec' = consec + 1 /\ consec' >= ai_circuit.failure_threshold)
            => ai_circuit'.state = OPEN]_vars
    /\ [][\A c \in Callers :
            (apc[c] = "idle" /\ apc'[c] # "idle" /\ cb_state = OPEN /\ ~cb_elapsed)
               => /\ apc'[c] \in {"fallback", "open_error"}
                  /\ circuit_breakers' = circuit_breakers]_vars

C1_Witness ==
    /\ cb_state = OPEN
    /\ ~cb_elapsed
    /\ consec = ai_circuit.failure_threshold
    /\ ai_circuit.failure_threshold = default_failure_threshold
    /\ \E c \in Callers : apc[c] \in {"fallback", "open_error"}

(***************************************************************************)
(* C2: between the open -> half_open transition and the recording of the   *)
(* probe's outcome, at most one caller of can_execute is admitted.         *)
(***************************************************************************)
C2_AtMostOneProbe == probes <= 1

(***************************************************************************)
(* C3: apart from reset(), the only state changes are closed -> open,      *)
(* open -> half_open, half_open -> closed and half_open -> open.           *)
(***************************************************************************)
C3_OnlyFourTransitions ==
    [][\/ ResetAll
       \/ ai_circuit'.state = ai_circuit.state
       \/ <<ai_circuit.state, ai_circuit'.state>> \in
            {<<CLOSED, OPEN>>, <<OPEN, HALF_OPEN>>,
             <<HALF_OPEN, CLOSED>>, <<HALF_OPEN, OPEN>>}]_vars

(***************************************************************************)
(* Executor threads.  Synchronous code runs in the default thread pool     *)
(* (scoring_worker.py: run_in_executor), several submissions at a time, and *)
(* takes no lock: every read and every write of a breaker attribute is a   *)
(* step of its own, `failure_count += 1` a load followed by a store.       *)
(***************************************************************************)
\* `max_retries = 3` of the review loop and the default of with_retry
max_retries == 3

\* thread t ends its call with result r
finish(t, r) ==
    /\ tpc' = [tpc EXCEPT ![t] = "done"]
    /\ result' = [result EXCEPT ![t] = r]

\* the caller takes the result; the thread is free for another call
thread_exit(t) ==
    /\ tpc[t] = "done"
    /\ tpc' = [tpc EXCEPT ![t] = "idle"]
    /\ attempt' = [attempt EXCEPT ![t] = 0]
    /\ tmp' = [tmp EXCEPT ![t] = 0]
    /\ err' = [err EXCEPT ![t] = "none"]
    /\ result' = [result EXCEPT ![t] = "none"]
    /\ invocations' = [invocations EXCEPT ![t] = 0]
    /\ recorded' = [recorded EXCEPT ![t] = 0]
    /\ slept' = [slept EXCEPT ![t] = 0]
    /\ UNCHANGED <<breaker_vars, async_vars, other_vars, calls>>

(***************************************************************************)
(* resilience.py: record_success_sync and record_failure_sync              *)
(***************************************************************************)
\* record_success_sync: `self.failure_count = 0`
record_success_sync_count(t) ==
    /\ tpc[t] = "rs_count"
    /\ circuit_breakers' =
          with_circuit(circuit_breakers, [ai_circuit EXCEPT !.failure_count = 0])
    /\ consec' = 0
    /\ tpc' = [tpc EXCEPT ![t] = "rs_state"]
    /\ UNCHANGED <<now, probes, async_vars, other_vars, attempt, tmp, err, result,
                   invocations, recorded, slept, calls>>

\* record_success_sync: `self.state = CircuitState.CLOSED`; the review returns
record_success_sync_state(t) ==
    /\ tpc[t] = "rs_state"
    /\ circuit_breakers' =
          with_circuit(circuit_breakers, [ai_circuit EXCEPT !.state = CLOSED])
    /\ probes' = 0
    /\ finish(t, "verdict")
    /\ UNCHANGED <<now, consec, async_vars, other_vars, attempt, tmp, err,
                   invocations, recorded, slept, calls>>

\* record_failure_sync: the load of `self.failure_count += 1`
record_failure_sync_load(t) ==
    /\ tpc[t] = "rf_load"
    /\ tmp' = [tmp EXCEPT ![t] = ai_circuit.failure_count]
    /\ tpc' = [tpc EXCEPT ![t] = "rf_store"]
    /\ UNCHANGED <<breaker_vars, async_vars, other_vars, attempt, err, result,
                   invocations, recorded, slept, calls>>

\* record_failure_sync: the store of `self.failure_count += 1`
record_failure_sync_store(t) ==
    /\ tpc[t] = "rf_store"
    /\ tmp[t] < MaxFailures
    /\ circuit_breakers' =
          with_circuit(circuit_breakers, [ai_circuit EXCEPT !.failure_count = tmp[t] + 1])
    /\ consec' = consec + 1
    /\ tpc' = [tpc EXCEPT ![t] = "rf_branch"]
    /\ tmp' = [tmp EXCEPT ![t] = 0]
    /\ UNCHANGED <<now, probes, async_vars, other_vars, attempt, err, result,
                   invocations, recorded, slept, calls>>

\* the rest of record_failure_sync: last_failure_time, then the state
record_failure_sync_rest(cb, t) ==
    LET c1 == [cb EXCEPT !.last_failure_time = t]
    IN  IF c1.state = HALF_OPEN
        THEN [c1 EXCEPT !.state = OPEN]
        ELSE IF c1.failure_count >= c1.failure_threshold
        THEN [c1 EXCEPT !.state = OPEN]
        ELSE c1

(***************************************************************************)
(* ai_reviewer.py: review_code_quality (detect_databases has the same      *)
(* control flow on the same breaker)                                       *)
(***************************************************************************)
\* what one call of client.messages.create and the parsing of its answer yield:
\* a parsed verdict, a text with no JSON object, RateLimitError,
\* APIConnectionError, APIStatusError, or any other exception (json.loads too)
ProviderOutcomes ==
    {"ok", "unparsable", "rate_limit", "connection", "status", "exception"}

\* a loop that retries after every failure, a status error too
review_retries_every(e) == e \in {"rate_limit", "connection", "exception", "status"}

\* whether the loop retries after this failure (every handler but APIStatusError's)
review_retries(e) == e \in {"rate_limit", "connection", "exception"}

\* the reason of the fallback returned when the last attempt failed with e
review_fallback(e) ==
    CASE e = "rate_limit" -> "fallback_rate_limited"
      [] e = "connection" -> "fallback_connection"
      [] e = "status" -> "fallback_status"
      [] OTHER -> "fallback_failed"

\* lines 68-76: the client check, then `if ai_circuit.is_open`
review_enter(t, has_client) ==
    /\ tpc[t] = "idle"
    /\ calls < MaxCalls
    /\ calls' = calls + 1
    /\ IF ~has_client
       THEN finish(t, "fallback_no_client")
       ELSE IF is_open(ai_circuit)
       THEN finish(t, "fallback_circuit_open")
       ELSE /\ tpc' = [tpc EXCEPT ![t] = "rv_call"]
            /\ UNCHANGED result
    /\ UNCHANGED <<breaker_vars, async_vars, other_vars, attempt, tmp, err,
                   invocations, recorded, slept>>

\* line 99: self.client.messages.create is invoked
review_call(t) ==
    /\ tpc[t] = "rv_call"
    /\ tpc' = [tpc EXCEPT ![t] = "rv_wait"]
    /\ invocations' = [invocations EXCEPT ![t] = @ + 1]
    /\ UNCHANGED <<breaker_vars, async_vars, other_vars, attempt, tmp, err, result,
                   recorded, slept, calls>>

\* lines 105-147: the provider's answer, or the exception, reaches the loop
review_response(t, o) ==
    /\ tpc[t] = "rv_wait"
    /\ err' = [err EXCEPT ![t] = o]
    /\ IF o = "ok"
       THEN tpc' = [tpc EXCEPT ![t] = "rs_count"] /\ UNCHANGED result
       ELSE IF o = "unparsable"
       THEN finish(t, "fallback_parse")
       ELSE tpc' = [tpc EXCEPT ![t] = "rf_load"] /\ UNCHANGED result
    /\ UNCHANGED <<breaker_vars, async_vars, other_vars, attempt, tmp,
                   invocations, recorded, slept, calls>>

\* the end of record_failure_sync, then the handler: sleep and retry, or return
review_failure_recorded(t) ==
    /\ tpc[t] = "rf_branch"
    /\ circuit_breakers' =
          with_circuit(circuit_breakers, record_failure_sync_rest(ai_circuit, now))
    /\ probes' = 0
    /\ recorded' = [recorded EXCEPT ![t] = @ + 1]
    /\ IF review_retries(err[t]) /\ attempt[t] < max_retries
       THEN tpc' = [tpc EXCEPT ![t] = "rv_sleep"] /\ UNCHANGED result
       ELSE finish(t, review_fallback(err[t]))
    /\ UNCHANGED <<now, consec, async_vars, other_vars, attempt, tmp, err, invocations, slept, calls>>

\* time.sleep(delay) returns; the loop takes the next attempt
review_sleep(t) ==
    /\ tpc[t] = "rv_sleep"
    /\ slept' = [slept EXCEPT ![t] = @ + 1]
    /\ attempt' = [attempt EXCEPT ![t] = @ + 1]
    /\ tpc' = [tpc EXCEPT ![t] = "rv_call"]
    /\ UNCHANGED <<breaker_vars, async_vars, other_vars, tmp, err, result, invocations, recorded, calls>>

(***************************************************************************)
(* resilience.py: with_circuit_breaker.sync_wrapper                        *)
(***************************************************************************)
\* lines 267-271: the admission test, under a lock no other thread shares
sync_can_execute(cb, t) ==
    \/ cb.state # OPEN
    \/ (cb.last_failure_time # None /\ t - cb.last_failure_time >= cb.recovery_timeout)

\* lines 267-282: fallback, CircuitBreakerOpenError, or func is invoked
sync_wrapper_enter(t, has_fallback) ==
    /\ tpc[t] = "idle"
    /\ calls < MaxCalls
    /\ calls' = calls + 1
    /\ IF sync_can_execute(ai_circuit, now)
       THEN /\ tpc' = [tpc EXCEPT ![t] = "sw_func"]
            /\ invocations' = [invocations EXCEPT ![t] = @ + 1]
            /\ UNCHANGED result
       ELSE /\ finish(t, IF has_fallback THEN "fallback" ELSE "open_error")
            /\ UNCHANGED invocations
    /\ UNCHANGED <<breaker_vars, async_vars, other_vars, attempt, tmp, err, recorded, slept>>

\* func returns (line 283 is next) or raises (line 287 is next)
sync_wrapper_func(t, ok) ==
    /\ tpc[t] = "sw_func"
    /\ tpc' = [tpc EXCEPT ![t] = IF ok THEN "sw_s_count" ELSE "sw_f_load"]
    /\ err' = [err EXCEPT ![t] = IF ok THEN "ok" ELSE "exception"]
    /\ UNCHANGED <<breaker_vars, async_vars, other_vars, attempt, tmp, result,
                   invocations, recorded, slept, calls>>

\* line 283: `circuit.failure_count = 0`
sync_wrapper_success_count(t) ==
    /\ tpc[t] = "sw_s_count"
    /\ circuit_breakers' =
          with_circuit(circuit_breakers, [ai_circuit EXCEPT !.failure_count = 0])
    /\ consec' = 0
    /\ tpc' = [tpc EXCEPT ![t] = "sw_s_state"]
    /\ UNCHANGED <<now, probes, async_vars, other_vars, attempt, tmp, err, result,
                   invocations, recorded, slept, calls>>

\* lines 284-285: `circuit.state = CircuitState.CLOSED`, `return result`
sync_wrapper_success_state(t) ==
    /\ tpc[t] = "sw_s_state"
    /\ circuit_breakers' =
          with_circuit(circuit_breakers, [ai_circuit EXCEPT !.state = CLOSED])
    /\ probes' = 0
    /\ finish(t, "returned")
    /\ UNCHANGED <<now, consec, async_vars, other_vars, attempt, tmp, err,
                   invocations, recorded, slept, calls>>

\* line 287: the load of `circuit.failure_count += 1`
sync_wrapper_failure_load(t) ==
    /\ tpc[t] = "sw_f_load"
    /\ tmp' = [tmp EXCEPT ![t] = ai_circuit.failure_count]
    /\ tpc' = [tpc EXCEPT ![t] = "sw_f_store"]
    /\ UNCHANGED <<breaker_vars, async_vars, other_vars, attempt, err, result,
                   invocations, recorded, slept, calls>>

\* line 287: the store of `circuit.failure_count += 1`
sync_wrapper_failure_store(t) ==
    /\ tpc[t] = "sw_f_store"
    /\ tmp[t] < MaxFailures
    /\ circuit_breakers' =
          with_circuit(circuit_breakers, [ai_circuit EXCEPT !.failure_count = tmp[t] + 1])
    /\ consec' = consec + 1
    /\ tpc' = [tpc EXCEPT ![t] = "sw_f_branch"]
    /\ tmp' = [tmp EXCEPT ![t] = 0]
    /\ UNCHANGED <<now, probes, async_vars, other_vars, attempt, err, result,
                   invocations, recorded, slept, calls>>

\* lines 288-290: last_failure_time, then the state
sync_wrapper_failure_rest(cb, t) ==
    LET c1 == [cb EXCEPT !.last_failure_time = t]
    IN  IF c1.failure_count >= c1.failure_threshold
        THEN [c1 EXCEPT !.state = OPEN]
        ELSE c1

\* lines 288-292: the end of the handler, `raise`
sync_wrapper_failure_recorded(t) ==
    /\ tpc[t] = "sw_f_branch"
    /\ circuit_breakers' =
          with_circuit(circuit_breakers, sync_wrapper_failure_rest(ai_circuit, now))
    /\ probes' = IF ai_circuit'.state = HALF_OPEN THEN probes ELSE 0
    /\ recorded' = [recorded EXCEPT ![t] = @ + 1]
    /\ finish(t, "raised")
    /\ UNCHANGED <<now, consec, async_vars, other_vars, attempt, tmp, err, invocations, slept, calls>>

(***************************************************************************)
(* resilience.py: with_retry (async_wrapper and sync_wrapper are the same  *)
(* loop, one awaiting and one blocking)                                    *)
(***************************************************************************)
\* what one invocation of func yields: a value, an exception of
\* retryable_exceptions, or an exception outside it
RetryOutcomes == {"ok", "retryable", "fatal"}

\* `last_exception = None`, the loop starts
with_retry_enter(t) ==
    /\ tpc[t] = "idle"
    /\ calls < MaxCalls
    /\ calls' = calls + 1
    /\ tpc' = [tpc EXCEPT ![t] = "wr_call"]
    /\ UNCHANGED <<breaker_vars, async_vars, other_vars, attempt, tmp, err, result,
                   invocations, recorded, slept>>

\* `return await func(*args, **kwargs)`: func is invoked
with_retry_call(t) ==
    /\ tpc[t] = "wr_call"
    /\ tpc' = [tpc EXCEPT ![t] = "wr_wait"]
    /\ invocations' = [invocations EXCEPT ![t] = @ + 1]
    /\ UNCHANGED <<breaker_vars, async_vars, other_vars, attempt, tmp, err, result,
                   recorded, slept, calls>>

\* a loop whose last attempt is taken one too late
with_retry_retries_late(o, a) == o = "retryable" /\ a # max_retries + 1

\* whether the loop sleeps and retries after outcome o of attempt a
with_retry_retries(o, a) == o = "retryable" /\ a # max_retries

\* func returned or raised: return, propagate, re-raise, or go to sleep
with_retry_outcome(t, o) ==
    /\ tpc[t] = "wr_wait"
    /\ err' = [err EXCEPT ![t] = o]
    /\ IF o = "ok"
       THEN finish(t, "returned")
       ELSE IF with_retry_retries(o, attempt[t])
       THEN tpc' = [tpc EXCEPT ![t] = "wr_sleep"] /\ UNCHANGED result
       ELSE finish(t, "raised")
    /\ UNCHANGED <<breaker_vars, async_vars, other_vars, attempt, tmp,
                   invocations, recorded, slept, calls>>

\* `await asyncio.sleep(delay)` returns; the loop takes the next attempt
with_retry_sleep(t) ==
    /\ tpc[t] = "wr_sleep"
    /\ slept' = [slept EXCEPT ![t] = @ + 1]
    /\ attempt' = [attempt EXCEPT ![t] = @ + 1]
    /\ tpc' = [tpc EXCEPT ![t] = "wr_call"]
    /\ UNCHANGED <<breaker_vars, async_vars, other_vars, tmp, err, result, invocations, recorded, calls>>

(***************************************************************************)
(* The AI provider's breaker under executor threads                        *)
(***************************************************************************)
InitSync ==
    /\ circuit_breakers =
          get_circuit_breaker(<<>>, AI_NAME, ai_failure_threshold, ai_recovery_timeout)
    /\ now = 0
    /\ apc = [c \in Callers |-> "idle"]
    /\ consec = 0
    /\ probes = 0
    /\ InitThreads
    /\ InitCache
    /\ InitHub
    /\ InitRun

review_step(t) ==
    \/ \E has_client \in BOOLEAN : review_enter(t, has_client)
    \/ review_call(t)
    \/ \E o \in ProviderOutcomes : review_response(t, o)
    \/ record_success_sync_count(t)
    \/ record_success_sync_state(t)
    \/ record_failure_sync_load(t)
    \/ record_failure_sync_store(t)
    \/ review_failure_recorded(t)
    \/ review_sleep(t)

sync_wrapper_step(t) ==
    \/ \E fb \in BOOLEAN : sync_wrapper_enter(t, fb)
    \/ \E ok \in BOOLEAN : sync_wrapper_func(t, ok)
    \/ sync_wrapper_success_count(t)
    \/ sync_wrapper_success_state(t)
    \/ sync_wrapper_failure_load(t)
    \/ sync_wrapper_failure_store(t)
    \/ sync_wrapper_failure_recorded(t)

with_retry_step(t) ==
    \/ with_retry_enter(t)
    \/ with_retry_call(t)
    \/ \E o \in RetryOutcomes : with_retry_outcome(t, o)
    \/ with_retry_sleep(t)

NextSync ==
    \/ Tick
    \/ \E t \in Threads : review_step(t)
    \/ \E t \in Threads : sync_wrapper_step(t)
    \/ \E t \in Threads : thread_exit(t)

SpecSync == InitSync /\ [][NextSync]_vars

\* one thread alone: the loops of one call after another
NextRetry ==
    \/ Tick
    \/ review_step("t1")
    \/ with_retry_step("t1")
    \/ thread_exit("t1")

SpecRetry == InitSync /\ [][NextRetry]_vars

(***************************************************************************)
(* C4: when the AI provider's breaker is open and recovery_timeout has     *)
(* elapsed since its last failure, a call is let through as a probe: no    *)
(* call returns the circuit-open fallback in that situation.               *)
(***************************************************************************)
C4_ProbeAfterTimeout ==
    [][\A t \in Threads :
          (cb_state = OPEN /\ cb_elapsed /\ result[t] # "fallback_circuit_open")
             => result'[t] # "fallback_circuit_open"]_vars

(***************************************************************************)
(* C5: the circuit is consulted before every attempt: the retry loop makes *)
(* no further provider call once the breaker is open.                      *)
(***************************************************************************)
C5_NoAttemptWhileOpen ==
    [][\A t \in Threads :
          (tpc[t] = "rv_call" /\ tpc'[t] = "rv_wait" /\ attempt[t] > 0)
             => ~is_open(ai_circuit)]_vars

(***************************************************************************)
(* C6: an operation is invoked at most max_retries + 1 times, once per     *)
(* attempt; a success ends the call with that value; when every attempt    *)
(* failed with a retryable error, the call ends after max_retries + 1      *)
(* invocations with the last failure (re-raised, or as the fallback's      *)
(* reason).                                                                *)
(***************************************************************************)
RetryableErrors == {"retryable", "rate_limit", "connection", "exception"}

C6_BoundedRetries ==
    \A t \in Threads :
       /\ invocations[t] <= max_retries + 1
       /\ invocations[t] \in {attempt[t], attempt[t] + 1}
       /\ (tpc[t] = "done" /\ err[t] = "ok")
             => /\ result[t] \in {"returned", "verdict"}
                /\ invocations[t] = attempt[t] + 1
       /\ (tpc[t] = "done" /\ result[t] \in {"returned", "verdict"}) => err[t] = "ok"
       /\ (tpc[t] = "done" /\ err[t] \in RetryableErrors)
             => /\ invocations[t] = max_retries + 1
                /\ result[t] = IF err[t] = "retryable" THEN "raised"
                               ELSE review_fallback(err[t])

C6_Witness ==
    \E t \in Threads :
       /\ tpc[t] = "done"
       /\ invocations[t] = max_retries + 1
       /\ err[t] = "rate_limit"
       /\ result[t] = "fallback_rate_limited"

(***************************************************************************)
(* C7: a fatal failure is never retried: after a provider status error the *)
(* review records one failure for that attempt and returns the fallback;   *)
(* with_retry lets an exception outside retryable_exceptions propagate;    *)
(* neither sleeps nor invokes the operation again.                         *)
(***************************************************************************)
FatalErrors == {"status", "fatal"}

C7_FatalNotRetried ==
    \A t \in Threads :
       /\ tpc[t] \in {"rv_sleep", "wr_sleep", "rv_call", "wr_call", "rv_wait", "wr_wait"}
             => err[t] \notin FatalErrors
       /\ (tpc[t] = "done" /\ err[t] \in FatalErrors)
             => /\ result[t] = IF err[t] = "status" THEN "fallback_status" ELSE "raised"
                /\ invocations[t] = attempt[t] + 1
                /\ slept[t] = attempt[t]
                /\ recorded[t] = IF err[t] = "status" THEN invocations[t] ELSE 0

C7_Witness ==
    \E t \in Threads :
       /\ tpc[t] = "done"
       /\ err[t] = "status"
       /\ attempt[t] = 1
       /\ recorded[t] = 2
       /\ result[t] = "fallback_status"

(***************************************************************************)
(* C8: no update of the shared breaker is lost: whenever no thread is      *)
(* inside an update, failure_count is the number of failures recorded      *)
(* since the last success, and the breaker is open once that number has    *)
(* reached failure_threshold.                                              *)
(***************************************************************************)
InUpdate ==
    {"rs_count", "rs_state", "rf_load", "rf_store", "rf_branch",
     "sw_s_count", "sw_s_state", "sw_f_load", "sw_f_store", "sw_f_branch"}

C8_NoLostUpdate ==
    (\A t \in Threads : tpc[t] \notin InUpdate)
       => /\ ai_circuit.failure_count = consec
          /\ (consec >= ai_circuit.failure_threshold => cb_state = OPEN)

(***************************************************************************)
(* The GitHub cache in use: the Redis server's clock advances, the store   *)
(* stops and resumes answering, coroutines call the cache, and             *)
(* analyze_commits runs against it.                                        *)
(***************************************************************************)
MaxRedisTime == 86400
RedisStep == RAW_COMMITS_TTL

\* a dict with str keys, from a sequence of <<key, value>> pairs
RECURSIVE dict_of(_)
dict_of(pairs) ==
    IF pairs = <<>>
    THEN <<>>
    ELSE (PyStr(Head(pairs)[1]) :> Head(pairs)[2]) @@ dict_of(Tail(pairs))

finding(type) == PyDict(dict_of(<<<<"type", PyStr(type)>>>>))

\* analyze_commits' result: total_commits, findings, and the working_hours
\* of _analyze_timeline, whose keys are the int hours of the commits
analysis_result(total_commits, findings, timeline_analysis) ==
    PyDict(dict_of(<< <<"total_commits", PyInt(total_commits)>>,
                      <<"findings", PyList(findings)>>,
                      <<"timeline_analysis", PyDict(timeline_analysis)>> >>))

\* the result of a repository whose commits carry no parsable date
UndatedResult ==
    analysis_result(2, <<finding("warning")>>,
                    dict_of(<<<<"working_hours", PyDict(<<>>)>>>>))

\* the result of a repository with two commits made between 14:00 and 15:00
DatedResult ==
    analysis_result(2, <<finding("success")>>,
                    dict_of(<<<<"working_hours", PyDict((PyInt(14) :> PyInt(2)))>>>>))

EmptyResult == analysis_result(0, <<>>, <<>>)
NoCommitsResult == analysis_result(0, <<finding("info")>>, <<>>)
ErrorResult == analysis_result(0, <<finding("error")>>, <<>>)
AnalysisValues == {UndatedResult, DatedResult}

\* response_data of the commit history route
RawCommits ==
    PyDict(dict_of(<< <<"repo_name", PyStr("octo/app")>>,
                      <<"total_commits", PyInt(1)>>,
                      <<"commits", PyList(<<PyDict(dict_of(<<<<"sha", PyStr("abc1234")>>>>))>>)>> >>))

\* the ttl a caller may pass to set_raw_commits: none, or twelve hours
RawTtls == {None, 2 * RAW_COMMITS_TTL}

\* any(f.get("type") == "error" for f in result.get("findings", []))
has_error(res) ==
    LET findings == res.v[PyStr("findings")].v
    IN  \E i \in DOMAIN findings : findings[i].v[PyStr("type")] = PyStr("error")

logged(op, by, key, out) ==
    [op |-> op, by |-> by, key |-> key, up |-> redis_up, out |-> out,
     seq |-> 1 - last_op.seq]

\* the value a get of `key` is due: the last value set under it, unless
\* invalidated since or its ttl has elapsed
Expected(key) ==
    LET w == written[key]
    IN  IF w # NoWrite /\ redis_time - w.at < w.ttl THEN w.val ELSE PyNone

RedisTick ==
    /\ redis_time + RedisStep <= MaxRedisTime
    /\ redis_time' = redis_time + RedisStep
    /\ UNCHANGED <<store, redis_up, written, last_op, arun, aresult, non_cache_vars>>

\* the store stops answering, or answers again
RedisFlip ==
    /\ redis_up' = ~redis_up
    /\ UNCHANGED <<store, redis_time, written, last_op, arun, aresult, non_cache_vars>>

\* a coroutine awaits get_commit_analysis or get_raw_commits
cache_get(cache_type) ==
    LET out == IF cache_type = "analysis"
               THEN get_commit_analysis(store, redis_up, redis_time, Owner, Repo)
               ELSE get_raw_commits(store, redis_up, redis_time, Owner, Repo)
    IN  /\ last_op' = logged("get", "api", get_cache_key(Owner, Repo, cache_type), out)
        /\ UNCHANGED <<store, redis_up, redis_time, written, arun, aresult, non_cache_vars>>

\* what a set leaves behind, given what the cache method returned
after_set(by, key, value, ttl, r) ==
    /\ store' = r.store
    /\ last_op' = logged("set", by, key, r.out)
    /\ written' = IF ~r.out.raised /\ r.out.ret = PyBool(TRUE)
                  THEN [written EXCEPT ![key] =
                           [val |-> value, at |-> redis_time, ttl |-> ttl]]
                  ELSE written

\* a coroutine awaits set_commit_analysis
cache_set_analysis(analysis) ==
    /\ after_set("api", get_cache_key(Owner, Repo, "analysis"), analysis, ANALYSIS_TTL,
                 set_commit_analysis(store, redis_up, redis_time, Owner, Repo, analysis))
    /\ UNCHANGED <<redis_up, redis_time, arun, aresult, non_cache_vars>>

\* a coroutine awaits set_raw_commits
cache_set_raw(ttl) ==
    /\ after_set("api", get_cache_key(Owner, Repo, "raw_commits"), RawCommits,
                 IF ttl = None THEN RAW_COMMITS_TTL ELSE ttl,
                 set_raw_commits(store, redis_up, redis_time, Owner, Repo, RawCommits, ttl))
    /\ UNCHANGED <<redis_up, redis_time, arun, aresult, non_cache_vars>>

\* a coroutine awaits invalidate; cache_type "" stands for None, and the
\* store may stop answering between the two DELs
cache_invalidate(cache_type, up2) ==
    LET r == invalidate(store, redis_up, up2, Owner, Repo, cache_type)
        deleted == IF ~redis_up THEN {}
                   ELSE IF cache_type # "" THEN {get_cache_key(Owner, Repo, cache_type)}
                   ELSE {get_cache_key(Owner, Repo, "analysis")}
                           \cup (IF up2 THEN {get_cache_key(Owner, Repo, "raw_commits")}
                                 ELSE {})
    IN  /\ up2 = redis_up \/ (cache_type = "" /\ redis_up)
        /\ store' = r.store
        /\ redis_up' = up2
        /\ last_op' = logged("invalidate", "api",
                             IF cache_type = "" THEN <<>>
                             ELSE get_cache_key(Owner, Repo, cache_type), r.out)
        /\ written' = [k \in CacheKeys |-> IF k \in deleted THEN NoWrite ELSE written[k]]
        /\ UNCHANGED <<redis_time, arun, aresult, non_cache_vars>>

\* analyze_commits up to `if cached:`
analyze_commits_enter(r) ==
    LET out == get_commit_analysis(store, redis_up, redis_time, Owner, Repo)
    IN  /\ arun[r] = "idle"
        /\ last_op' = logged("get", r, get_cache_key(Owner, Repo, "analysis"), out)
        /\ IF out.raised
           THEN /\ arun' = [arun EXCEPT ![r] = "raised"]
                /\ UNCHANGED aresult
           ELSE IF truthy(out.ret)
           THEN /\ arun' = [arun EXCEPT ![r] = "done"]
                /\ aresult' = [aresult EXCEPT ![r] = out.ret]
           ELSE /\ arun' = [arun EXCEPT ![r] = "fetch"]
                /\ aresult' = [aresult EXCEPT ![r] = EmptyResult]
        /\ UNCHANGED <<store, redis_up, redis_time, written, non_cache_vars>>

FetchOutcomes == {"http_error", "no_commits", "undated", "dated", "timeout", "exception"}

\* the result is written to the cache whatever its findings
caches_result_always(res) == TRUE

\* `if not any(f.get("type") == "error" ...)`: the result is written to
\* the cache
caches_result(res) == ~has_error(res)

\* analyze_commits from the request to GitHub up to the `if not any(...)`
\* that guards the cache write
analyze_commits_fetch(r, outcome) ==
    LET res == CASE outcome = "no_commits" -> NoCommitsResult
                 [] outcome = "undated" -> UndatedResult
                 [] outcome = "dated" -> DatedResult
                 [] OTHER -> ErrorResult
    IN  /\ arun[r] = "fetch"
        /\ aresult' = [aresult EXCEPT ![r] = res]
        /\ arun' = [arun EXCEPT ![r] =
                       IF outcome \in {"http_error", "no_commits"} \/ ~caches_result(res)
                       THEN "done" ELSE "set"]
        /\ UNCHANGED <<store, redis_up, redis_time, written, last_op, non_cache_vars>>

\* analyze_commits awaits set_commit_analysis and returns
analyze_commits_set(r) ==
    /\ arun[r] = "set"
    /\ after_set(r, get_cache_key(Owner, Repo, "analysis"), aresult[r], ANALYSIS_TTL,
                 set_commit_analysis(store, redis_up, redis_time, Owner, Repo, aresult[r]))
    /\ arun' = [arun EXCEPT ![r] = "done"]
    /\ UNCHANGED <<redis_up, redis_time, aresult, non_cache_vars>>

\* the caller has taken the result
analyze_commits_exit(r) ==
    /\ arun[r] = "done"
    /\ arun' = [arun EXCEPT ![r] = "idle"]
    /\ aresult' = [aresult EXCEPT ![r] = PyNone]
    /\ UNCHANGED <<store, redis_up, redis_time, written, last_op, non_cache_vars>>

analyze_commits_step(r) ==
    \/ analyze_commits_enter(r)
    \/ \E outcome \in FetchOutcomes : analyze_commits_fetch(r, outcome)
    \/ analyze_commits_set(r)
    \/ analyze_commits_exit(r)

NextCache ==
    \/ RedisTick
    \/ RedisFlip
    \/ \E ct \in CacheTypes : cache_get(ct)
    \/ \E analysis \in AnalysisValues : cache_set_analysis(analysis)
    \/ \E ttl \in RawTtls : cache_set_raw(ttl)
    \/ \E ct \in CacheTypes \cup {""} : \E up2 \in BOOLEAN : cache_invalidate(ct, up2)
    \/ \E r \in Runs : analyze_commits_step(r)

SpecCache == InitSync /\ [][NextCache]_vars

(***************************************************************************)
(* C9: a get on an answering store returns the value of the most recent    *)
(* set on its key if less than that set's ttl has elapsed and the key has  *)
(* not been invalidated since, and absent otherwise; the value returned is *)
(* equal to the one stored.                                                *)
(***************************************************************************)
C9_GetReturnsStored ==
    [][(last_op' # last_op /\ last_op'.op = "get" /\ last_op'.up)
          => last_op'.out.ret = Expected(last_op'.key)]_vars

(***************************************************************************)
(* C10: a store that does not answer never fails the caller: no cache      *)
(* operation raises, a get returns None, a set or an invalidate returns    *)
(* False and leaves the store as it was, and analyze_commits goes on to    *)
(* fetch with an empty result, as on a miss.                               *)
(***************************************************************************)
C10_StoreFailureContained ==
    /\ [](/\ ~last_op.out.raised
          /\ \A r \in Runs : arun[r] # "raised"
          /\ ~last_op.up =>
                last_op.out.ret = IF last_op.op = "get" THEN PyNone ELSE PyBool(FALSE))
    /\ [][/\ ~redis_up => store' = store
          /\ \A r \in Runs :
                (arun[r] = "idle" /\ arun'[r] # "idle" /\ ~redis_up)
                   => (arun'[r] = "fetch" /\ aresult'[r] = EmptyResult)]_vars

C10_Witness ==
    /\ last_op.op = "get"
    /\ ~last_op.up
    /\ last_op.by \in Runs
    /\ Expected(last_op.key) # PyNone
    /\ last_op.out = Returned(PyNone)
    /\ arun[last_op.by] = "fetch"

(***************************************************************************)
(* C11: analyze_commits reads the cache first and on a hit returns the     *)
(* cached analysis without a request to GitHub; a run writes the cache     *)
(* only at its end and only a result with no error finding (a non-200      *)
(* status, a timeout or an exception leave the store as it was), so no     *)
(* result with an error finding is in the store or returned from it.       *)
(***************************************************************************)
AnalysisKey == get_cache_key(Owner, Repo, "analysis")

C11_CacheFirstNoErrorCached ==
    /\ [](/\ store[AnalysisKey] # NoEntry => ~has_error(json_loads(store[AnalysisKey].val))
          /\ \A r \in Runs :
                (arun[r] = "done" /\ has_error(aresult[r]))
                   => ~(last_op.by = r /\ last_op.op = "get" /\ truthy(last_op.out.ret)))
    /\ [][\A r \in Runs :
            /\ (arun[r] = "idle" /\ arun'[r] # "idle" /\ redis_up
                   /\ redis_get(store, AnalysisKey, redis_time).found)
                  => (arun'[r] = "done" /\ aresult'[r] = json_loads(store[AnalysisKey].val))
            /\ (arun[r] = "fetch" /\ arun'[r] # "fetch")
                  => /\ store' = store
                     /\ arun'[r] = "set" => ~has_error(aresult'[r])
            /\ (arun[r] # "set" /\ last_op'.by = r) => store' = store]_vars

\* a run whose fetch timed out or failed has returned its error result and
\* the store holds nothing for the repository
C11_Witness ==
    \E r \in Runs :
       /\ arun[r] = "done"
       /\ has_error(aresult[r])
       /\ last_op.by = r
       /\ last_op.op = "get"
       /\ last_op.up
       /\ store[AnalysisKey] = NoEntry

(***************************************************************************)
(* The hub in use: websocket routes connect, subscribe, unsubscribe and    *)
(* disconnect; broadcast_progress calls are scheduled on the event loop    *)
(* and start in the order they were scheduled; each send_json is an await  *)
(* at which every other coroutine may run.                                 *)
(***************************************************************************)
MaxPublished == 2

\* the run whose progress is broadcast
Watched == "s1"

\* websocket_endpoint: a new connection under a fresh uuid4
hub_connect(c) ==
    /\ c \notin used
    /\ used' = used \cup {c}
    /\ connections' = connect(connections, c)
    /\ UNCHANGED <<subscriptions, alive, ready, published, bpc, bev, todo, cur,
                   waiting, sendok, failed, snap, inbox, left, non_hub_vars>>

\* a route, or the clean-up of a broadcast, awaits disconnect
hub_disconnect(c) ==
    LET r == disconnect(connections, subscriptions, c)
    IN  /\ c \in used
        /\ connections' = r.connections
        /\ subscriptions' = r.subscriptions
        /\ left' = left \cup {c}
        /\ UNCHANGED <<used, alive, ready, published, bpc, bev, todo, cur,
                       waiting, sendok, failed, snap, inbox, non_hub_vars>>

hub_subscribe(c, s) ==
    LET r == subscribe(connections, subscriptions, c, s)
    IN  /\ c \in used
        /\ connections' = r.connections
        /\ subscriptions' = r.subscriptions
        /\ UNCHANGED <<used, alive, ready, published, bpc, bev, todo, cur,
                       waiting, sendok, failed, snap, inbox, left, non_hub_vars>>

hub_unsubscribe(c, s) ==
    LET r == unsubscribe(connections, subscriptions, c, s)
    IN  /\ c \in used
        /\ connections' = r.connections
        /\ subscriptions' = r.subscriptions
        /\ left' = IF s = Watched THEN left \cup {c} ELSE left
        /\ UNCHANGED <<used, alive, ready, published, bpc, bev, todo, cur,
                       waiting, sendok, failed, snap, inbox, non_hub_vars>>

\* the transport of a connection goes away: its sends raise from now on
socket_break(c) ==
    /\ c \in used
    /\ alive[c]
    /\ alive' = [alive EXCEPT ![c] = FALSE]
    /\ UNCHANGED <<registry_vars, used, ready, published, bpc, bev, todo, cur,
                   waiting, sendok, failed, snap, inbox, left, non_hub_vars>>

\* broadcast_progress(submission_id, ...) is called or scheduled
publish(s) ==
    /\ published < MaxPublished
    /\ published' = published + 1
    /\ ready' = Append(ready, [sub |-> s, n |-> published + 1])
    /\ UNCHANGED <<registry_vars, used, alive, bpc, bev, todo, cur,
                   waiting, sendok, failed, snap, inbox, left, non_hub_vars>>

\* what one pass of the loop leaves when its send_json raised and the
\* exception was not caught: nothing more is iterated
after_send_uncaught(failed_ids, todo_ids, c, ok) ==
    IF ok
    THEN [failed |-> failed_ids, todo |-> todo_ids]
    ELSE [failed |-> Append(failed_ids, c), todo |-> {}]

\* what one pass of the loop leaves: conn_id is appended to `disconnected`
\* when its send_json raised
after_send(failed_ids, todo_ids, c, ok) ==
    [failed |-> IF ok THEN failed_ids ELSE Append(failed_ids, c), todo |-> todo_ids]

\* `for conn_id in disconnected: await self.disconnect(conn_id)`
RECURSIVE disconnect_all(_, _, _)
disconnect_all(conns, subs, ids) ==
    IF ids = <<>>
    THEN [connections |-> conns, subscriptions |-> subs]
    ELSE LET r == disconnect(conns, subs, Head(ids))
         IN  disconnect_all(r.connections, r.subscriptions, Tail(ids))

\* the order in which a set of connection ids is iterated
ConnOrder == <<"c1", "c2">>

\* the conn_id the loop reaches next: the first in the set's order that is
\* in self._connections
next_conn(ids, conns) ==
    LET at == {i \in DOMAIN ConnOrder : ConnOrder[i] \in ids \cap DOMAIN conns}
    IN  IF at = {} THEN "none"
        ELSE ConnOrder[CHOOSE i \in at : \A j \in at : i <= j]

\* send_json is called for c: the event goes out if the transport works,
\* and the coroutine awaits behind the sends already pending on c
send_json(b, ev, c) ==
    /\ bpc' = [bpc EXCEPT ![b] = "await"]
    /\ cur' = [cur EXCEPT ![b] = c]
    /\ sendok' = [sendok EXCEPT ![b] = alive[c]]
    /\ inbox' = IF alive[c] THEN [inbox EXCEPT ![c] = Append(inbox[c], ev)] ELSE inbox

\* broadcast_progress up to its first await: copy the subscriber set,
\* return if it is empty, otherwise call send_json for the first conn_id
broadcast_start(b) ==
    LET subscriber_ids == subscribers(subscriptions, Head(ready).sub)
        c == next_conn(subscriber_ids, connections)
    IN  /\ bpc[b] = "idle"
        /\ \A other \in Bcasts :
              bpc[other] = "idle" => b = CHOOSE i \in Bcasts : bpc[i] = "idle"
        /\ ready # <<>>
        /\ ready' = Tail(ready)
        /\ IF c = "none"
           THEN UNCHANGED <<bpc, bev, todo, snap, cur, waiting, sendok, inbox>>
           ELSE /\ bev' = [bev EXCEPT ![b] = Head(ready)]
                /\ todo' = [todo EXCEPT ![b] = subscriber_ids \ {c}]
                /\ snap' = [snap EXCEPT ![b] = subscriber_ids]
                /\ waiting' = [waiting EXCEPT ![c] = Append(waiting[c], b)]
                /\ send_json(b, Head(ready), c)
        /\ UNCHANGED <<registry_vars, used, alive, published, failed, left, non_hub_vars>>

\* the oldest pending send_json of a connection returns or raises, and
\* the loop goes on to its next await: the send_json for the next conn_id
broadcast_next(b) ==
    LET r == after_send(failed[b], todo[b], cur[b], sendok[b])
        c == next_conn(r.todo, connections)
    IN  /\ bpc[b] = "await"
        /\ Head(waiting[cur[b]]) = b
        /\ c # "none"
        /\ failed' = [failed EXCEPT ![b] = r.failed]
        /\ todo' = [todo EXCEPT ![b] = r.todo \ {c}]
        /\ waiting' = [waiting EXCEPT ![cur[b]] = Tail(waiting[cur[b]]),
                                      ![c] = Append(waiting[c], b)]
        /\ send_json(b, bev[b], c)
        /\ UNCHANGED <<registry_vars, used, alive, ready, published, bev, snap, left,
                       non_hub_vars>>

\* the oldest pending send_json of a connection returns or raises and no
\* conn_id that is connected remains: the loop ends, the connections
\* whose send raised are disconnected and broadcast_progress returns
broadcast_return(b) ==
    LET r == after_send(failed[b], todo[b], cur[b], sendok[b])
        d == disconnect_all(connections, subscriptions, r.failed)
    IN  /\ bpc[b] = "await"
        /\ Head(waiting[cur[b]]) = b
        /\ next_conn(r.todo, connections) = "none"
        /\ connections' = d.connections
        /\ subscriptions' = d.subscriptions
        /\ left' = left \cup {r.failed[i] : i \in DOMAIN r.failed}
        /\ bpc' = [bpc EXCEPT ![b] = "idle"]
        /\ bev' = [bev EXCEPT ![b] = NoEvent]
        /\ todo' = [todo EXCEPT ![b] = {}]
        /\ cur' = [cur EXCEPT ![b] = "none"]
        /\ waiting' = [waiting EXCEPT ![cur[b]] = Tail(waiting[cur[b]])]
        /\ failed' = [failed EXCEPT ![b] = <<>>]
        /\ snap' = [snap EXCEPT ![b] = {}]
        /\ UNCHANGED <<used, alive, ready, published, sendok, inbox, non_hub_vars>>

NextHub ==
    \/ \E c \in Conns : hub_connect(c) \/ hub_disconnect(c) \/ socket_break(c)
    \/ \E c \in Conns : \E s \in Subs : hub_subscribe(c, s) \/ hub_unsubscribe(c, s)
    \/ publish(Watched)
    \/ \E b \in Bcasts :
          \/ broadcast_start(b)
          \/ broadcast_next(b)
          \/ broadcast_return(b)

SpecHub == InitSync /\ [][NextHub]_vars

(***************************************************************************)
(* C12: no progress event of a run is sent to a connection that has        *)
(* unsubscribed from the run: every send of an event of Watched goes to a  *)
(* connection whose submission_ids hold Watched at the time of the send.   *)
(***************************************************************************)
C12_NoEventAfterUnsubscribe ==
    [][\A c \in Conns :
          inbox'[c] # inbox[c]
             => (c \in DOMAIN connections /\ Watched \in connections[c].submission_ids)]_vars

(***************************************************************************)
(* C13: a disconnected connection is in no subscriber set and not in the   *)
(* connection table; a disconnect leaves every other connection and its    *)
(* subscriptions as they were (the clean-up of a broadcast disconnects     *)
(* each connection whose send raised, and no other); a broadcast to a run  *)
(* with no subscribers sends nothing, returns at once and leaves the       *)
(* registry as it was.                                                     *)
(***************************************************************************)
C13_DisconnectRemovesAll ==
    /\ [](\A c \in Conns \ DOMAIN connections :
             \A s \in DOMAIN subscriptions : c \notin subscriptions[s])
    /\ [][/\ \A c \in DOMAIN connections \ DOMAIN connections' :
               \A d \in DOMAIN connections \ {c} :
                  \/ d \notin DOMAIN connections' /\ ~alive[d]
                  \/ /\ d \in DOMAIN connections'
                     /\ connections'[d] = connections[d]
                     /\ \A s \in Subs : (d \in subscribers(subscriptions', s))
                                           = (d \in subscribers(subscriptions, s))
          /\ (ready # <<>> /\ ready' = Tail(ready)
                 /\ subscribers(subscriptions, Head(ready).sub) = {})
               => /\ UNCHANGED <<connections, subscriptions, inbox, bpc>>]_vars

\* c1, once subscribed to the watched run, is gone; c2 keeps both its runs
C13_Witness ==
    /\ "c1" \in used \ DOMAIN connections
    /\ inbox["c1"] # <<>>
    /\ "c2" \in DOMAIN connections
    /\ connections["c2"].submission_ids = Subs
    /\ \A s \in Subs : s \in DOMAIN subscriptions /\ subscriptions[s] = {"c2"}

(***************************************************************************)
(* C14: a send that raises does not stop the loop: when a broadcast        *)
(* returns, every connection of its subscriber_ids that is still connected *)
(* with a working transport holds the event, and every connection whose    *)
(* send raised is in neither the connection table nor any subscriber set.  *)
(***************************************************************************)
C14_FailureIsolated ==
    [][\A b \in Bcasts :
          (bpc[b] = "await" /\ bpc'[b] = "idle")
             => /\ \A c \in snap[b] :
                      (c \in DOMAIN connections' /\ alive[c])
                         => \E i \in DOMAIN inbox[c] : inbox[c][i] = bev[b]
                /\ \A c \in {failed[b][i] : i \in DOMAIN failed[b]}
                             \cup (IF sendok[b] THEN {} ELSE {cur[b]}) :
                      /\ c \notin DOMAIN connections'
                      /\ \A s \in DOMAIN subscriptions' : c \notin subscriptions'[s]]_vars

\* a broadcast to c1 and c2 is about to return: the send to c1 raised,
\* the event went out to c2 all the same
C14_Witness ==
    \E b \in Bcasts :
       /\ bpc[b] = "await"
       /\ todo[b] = {}
       /\ snap[b] = {"c1", "c2"}
       /\ failed[b] = <<"c1">>
       /\ cur[b] = "c2"
       /\ sendok[b]
       /\ inbox["c1"] = <<>>
       /\ inbox["c2"] = <<bev[b]>>

(***************************************************************************)
(* C15: a connection that stays subscribed to a run is sent the run's      *)
(* events in the order in which they were reported.                        *)
(***************************************************************************)
C15_EventsInOrder ==
    \A c \in Conns \ left :
       \A i, j \in DOMAIN inbox[c] : i < j => inbox[c][i].n < inbox[c][j].n

(***************************************************************************)
(* scoring_worker.py and scorer.py: one submission's run.  The worker      *)
(* coroutine awaits the executor thread that runs score_submission; the    *)
(* scorer's progress callback schedules one broadcast_progress per report, *)
(* and the loop starts them in the order they were scheduled, so `events`  *)
(* lists the run's broadcasts in the order they are published.  The model  *)
(* follows one submission at a time.                                       *)
(***************************************************************************)
\* process_submission calls the model follows
MaxRuns == 2
\* trigger_scoring requests
MaxTriggers == 1

\* JSON objects the provider may answer with: the verdict asked for, one with a
\* single category, one whose score is the string "4", one whose strengths is null
ProviderVerdicts ==
    {[score |-> [k \in AIKeys |-> PyInt(4)], strengths |-> PyList(<<"Clear naming">>),
      weaknesses |-> PyList(<<>>), fallback |-> FALSE, fallback_reason |-> ""],
     [score |-> [k \in {"security"} |-> PyInt(5)], strengths |-> PyList(<<>>),
      weaknesses |-> PyList(<<"No tests">>), fallback |-> FALSE, fallback_reason |-> ""],
     [score |-> [k \in AIKeys |-> IF k = "modularity" THEN PyStr("4") ELSE PyInt(4)],
      strengths |-> PyList(<<>>), weaknesses |-> PyList(<<>>),
      fallback |-> FALSE, fallback_reason |-> ""],
     [score |-> [k \in AIKeys |-> PyInt(4)], strengths |-> PyNone,
      weaknesses |-> PyList(<<>>), fallback |-> FALSE, fallback_reason |-> ""]}

\* the thread that runs score_submission
Scorer == "t1"

progress_event(stage, progress) == [stage |-> stage, progress |-> progress]

\* a _report_progress that leaves out the deployment stage's report
report_progress_but_deployment(stage, progress) ==
    /\ reported' = IF progress = 85 THEN reported
                   ELSE Append(reported, progress_event(stage, progress))
    /\ events' = IF progress = 85 THEN events
                 ELSE Append(events, progress_event(stage, progress))

\* _report_progress: the callback schedules broadcast_progress on the loop
report_progress(stage, progress) ==
    /\ reported' = Append(reported, progress_event(stage, progress))
    /\ events' = Append(events, progress_event(stage, progress))

\* update_submission_status(db, id, "processing"), the "initializing" broadcast,
\* and the hand-over of score_submission to the executor
process_submission_start ==
    /\ wpc = "idle"
    /\ runs < MaxRuns
    /\ runs' = runs + 1
    /\ sub' = [sub EXCEPT !.status = "processing"]
    /\ events' = Append(events, progress_event("initializing", 5))
    /\ wpc' = "executor"
    /\ spc' = "start"
    /\ UNCHANGED <<sid, score_result, ctx, reported, triggers, non_run_vars>>

\* score_submission up to repo_cloner.clone
score_submission_enter ==
    /\ spc = "start"
    /\ score_result' = ResultDefaults
    /\ report_progress("cloning", 10)
    /\ spc' = "cloning"
    /\ UNCHANGED <<sub, sid, wpc, ctx, runs, triggers, non_run_vars>>

\* `except Exception` of score_submission, reached from a stage that raised
stage_raised ==
    /\ score_result' = [score_result EXCEPT !.status = "failed", !.error = "error"]
    /\ report_progress("failed", 0)
    /\ spc' = "returned"

\* a stage whose call returned: the next stage is reported
stage_done(next, stage, progress) ==
    /\ report_progress(stage, progress)
    /\ spc' = next
    /\ UNCHANGED score_result

\* repo_cloner.clone returns or raises
clone(ok) ==
    /\ spc = "cloning"
    /\ IF ok THEN stage_done("repo_info", "analyzing", 20) /\ UNCHANGED ctx
       ELSE stage_raised /\ ctx' = [ctx EXCEPT !.fatal = TRUE]
    /\ UNCHANGED <<sub, sid, wpc, runs, triggers, non_run_vars>>

\* repo_cloner.get_repo_info returns or raises
get_repo_info(ok) ==
    /\ spc = "repo_info"
    /\ IF ok THEN stage_done("analyzing", "analyzing", 40) /\ UNCHANGED ctx
       ELSE stage_raised /\ ctx' = [ctx EXCEPT !.fatal = TRUE]
    /\ UNCHANGED <<sub, sid, wpc, runs, triggers, non_run_vars>>

\* the parameters CodeAnalyzer.__init__ declares after self, and the
\* arguments score_submission calls it with
CodeAnalyzerParams == {"repo_path"}
CodeAnalyzerCall == {"repo_path", "ai_reviewer"}

\* a Python call binds only when every argument has a parameter
py_call_binds(params, call) == call \subseteq params

\* step 3 as the source has it: the constructor call raises TypeError, which
\* score_submission's `except Exception` turns into the failed result
analyze_all_rejected ==
    /\ spc = "analyzing"
    /\ ~py_call_binds(CodeAnalyzerParams, CodeAnalyzerCall)
    /\ stage_raised
    /\ UNCHANGED <<sub, sid, wpc, ctx, runs, triggers, non_run_vars>>

\* step 3 with an analyzer the call can construct (a stand-in for
\* CodeAnalyzer): analyze_all returns an analysis or raises
analyze_all(ok, a) ==
    /\ spc = "analyzing"
    /\ IF ok THEN stage_done("code_files", "ai_review", 50)
                  /\ ctx' = [ctx EXCEPT !.analysis = a]
       ELSE stage_raised /\ ctx' = [ctx EXCEPT !.fatal = TRUE]
    /\ UNCHANGED <<sub, sid, wpc, runs, triggers, non_run_vars>>

\* _get_code_files returns or raises
get_code_files(ok) ==
    /\ spc = "code_files"
    /\ IF ok THEN stage_done("ai_review", "ai_review", 70) /\ UNCHANGED ctx
       ELSE stage_raised /\ ctx' = [ctx EXCEPT !.fatal = TRUE]
    /\ UNCHANGED <<sub, sid, wpc, runs, triggers, non_run_vars>>

\* review_code_quality has returned: a parsed answer pv, or the fallback
ai_review_return(pv) ==
    /\ spc = "ai_review"
    /\ tpc[Scorer] = "done"
    /\ ctx' = [ctx EXCEPT !.ai = result[Scorer],
                          !.invoked = invocations[Scorer],
                          !.ai_evaluation =
                              IF result[Scorer] = "verdict" THEN pv
                              ELSE default_quality_result(result[Scorer])]
    /\ stage_done("ai_detection", "ai_detection", 80)
    /\ tpc' = [tpc EXCEPT ![Scorer] = "idle"]
    /\ attempt' = [attempt EXCEPT ![Scorer] = 0]
    /\ tmp' = [tmp EXCEPT ![Scorer] = 0]
    /\ err' = [err EXCEPT ![Scorer] = "none"]
    /\ result' = [result EXCEPT ![Scorer] = "none"]
    /\ invocations' = [invocations EXCEPT ![Scorer] = 0]
    /\ recorded' = [recorded EXCEPT ![Scorer] = 0]
    /\ slept' = [slept EXCEPT ![Scorer] = 0]
    /\ UNCHANGED <<sub, sid, wpc, runs, triggers, calls,
                   breaker_vars, async_vars, cache_vars, hub_vars, call_vars, batch_vars, rerun_vars>>

\* detect_ai_generation: local arithmetic, the risk above 0.6 or not
detect_ai_generation(risk_high) ==
    /\ spc = "ai_detection"
    /\ ctx' = [ctx EXCEPT !.risk_high = risk_high]
    /\ stage_done("deployment", "deployment", 85)
    /\ UNCHANGED <<sub, sid, wpc, runs, triggers, non_run_vars>>

\* a stage that captures whenever a URL was supplied and lets the capture's
\* exception through
deployment_check_unguarded(has_url, reachable, shot_ok) ==
    /\ spc = "deployment"
    /\ ctx' = [ctx EXCEPT !.deployment = check_deployment(has_url, reachable),
                          !.shot = IF has_url
                                   THEN IF shot_ok THEN "captured" ELSE "error"
                                   ELSE "none",
                          !.fatal = has_url /\ ~shot_ok]
    /\ IF has_url /\ ~shot_ok THEN stage_raised
       ELSE stage_done("scoring", "scoring", 90)
    /\ UNCHANGED <<sub, sid, wpc, runs, triggers, non_run_vars>>

\* check_deployment, then capture_screenshots_sync inside its own try
deployment_check(has_url, reachable, shot_ok) ==
    /\ spc = "deployment"
    /\ ctx' = [ctx EXCEPT !.deployment = check_deployment(has_url, reachable),
                          !.shot = IF has_url /\ reachable
                                   THEN IF shot_ok THEN "captured" ELSE "error"
                                   ELSE "none"]
    /\ stage_done("scoring", "scoring", 90)
    /\ UNCHANGED <<sub, sid, wpc, runs, triggers, non_run_vars>>

\* steps 8 to 12, then the "completed" report, or the handler's "failed"
scoring ==
    /\ spc = "scoring"
    /\ LET r == score_steps(score_result, ctx.analysis, ctx.ai_evaluation,
                            ctx.risk_high, ctx.deployment)
       IN  /\ score_result' = r
           /\ IF r.status = "completed" THEN report_progress("completed", 100)
              ELSE report_progress("failed", 0)
    /\ spc' = "returned"
    /\ UNCHANGED <<sub, sid, wpc, ctx, runs, triggers, non_run_vars>>

\* update_submission_results copies the result into the row, or the database raises
process_submission_save(db_ok) ==
    /\ wpc = "executor"
    /\ spc = "returned"
    /\ IF db_ok
       THEN /\ sub' = [status |-> score_result.status,
                       error_message |-> score_result.error,
                       overall_score |-> score_result.overall_score,
                       grade |-> score_result.grade,
                       scores |-> score_result.scores,
                       flags |-> score_result.flags,
                       strengths |-> score_result.strengths,
                       weaknesses |-> score_result.weaknesses]
            /\ wpc' = "saved"
       ELSE /\ wpc' = "except"
            /\ UNCHANGED sub
    /\ UNCHANGED <<sid, spc, score_result, ctx, reported, events, runs, triggers,
                   non_run_vars>>

\* lines 88-98: the worker's own broadcast, whatever result["status"] is
process_submission_broadcast ==
    /\ wpc = "saved"
    /\ events' = Append(events, progress_event("completed", 100))
    /\ wpc' = "done"
    /\ UNCHANGED <<sub, sid, spc, score_result, ctx, reported, runs, triggers,
                   non_run_vars>>

\* lines 102-118: the worker's `except Exception`; when its own
\* update_submission_status raises, the exception leaves process_submission
process_submission_except(db_ok) ==
    /\ wpc = "except"
    /\ IF db_ok
       THEN /\ sub' = [sub EXCEPT !.status = "failed", !.error_message = "error"]
            /\ events' = Append(events, progress_event("failed", 0))
       ELSE UNCHANGED <<sub, events>>
    /\ wpc' = "done"
    /\ UNCHANGED <<sid, spc, score_result, ctx, reported, runs, triggers, non_run_vars>>

\* routes/submissions.py trigger_scoring: the row is reset; the background
\* task calls process_submission with five positional arguments, which its
\* three parameters reject with TypeError before any statement of it runs
trigger_scoring ==
    /\ triggers < MaxTriggers
    /\ triggers' = triggers + 1
    /\ sub' = [sub EXCEPT !.status = "pending", !.error_message = ""]
    /\ UNCHANGED <<sid, wpc, spc, score_result, ctx, reported, events, runs,
                   non_run_vars>>

\* the next submission is created and the model follows it
create_submission ==
    /\ wpc = "done"
    /\ runs < MaxRuns
    /\ sid' = sid + 1
    /\ sub' = NewSubmission
    /\ wpc' = "idle"
    /\ spc' = "idle"
    /\ score_result' = ResultDefaults
    /\ ctx' = NoCtx
    /\ reported' = <<>>
    /\ events' = <<>>
    /\ UNCHANGED <<runs, triggers, non_run_vars>>

score_submission_step ==
    \/ score_submission_enter
    \/ \E ok \in BOOLEAN : clone(ok)
    \/ \E ok \in BOOLEAN : get_repo_info(ok)
    \/ \E ok \in BOOLEAN, a \in Analyses : analyze_all(ok, a)
    \/ \E ok \in BOOLEAN : get_code_files(ok)
    \/ (spc = "ai_review" /\ review_step(Scorer))
    \/ \E pv \in ProviderVerdicts : ai_review_return(pv)
    \/ \E risk_high \in BOOLEAN : detect_ai_generation(risk_high)
    \/ \E has_url \in BOOLEAN, reachable \in BOOLEAN, shot_ok \in BOOLEAN :
          deployment_check(has_url, reachable, shot_ok)
    \/ scoring

NextWorker ==
    \/ process_submission_start
    \/ score_submission_step
    \/ \E db_ok \in BOOLEAN : process_submission_save(db_ok)
    \/ process_submission_broadcast
    \/ \E db_ok \in BOOLEAN : process_submission_except(db_ok)
    \/ trigger_scoring
    \/ create_submission

SpecWorker == InitSync /\ [][NextWorker]_vars

\* the run as the source has it: step 3 always raises, so no later step runs
NextRun ==
    \/ process_submission_start
    \/ score_submission_enter
    \/ \E ok \in BOOLEAN : clone(ok)
    \/ \E ok \in BOOLEAN : get_repo_info(ok)
    \/ analyze_all_rejected
    \/ \E db_ok \in BOOLEAN : process_submission_save(db_ok)
    \/ process_submission_broadcast
    \/ \E db_ok \in BOOLEAN : process_submission_except(db_ok)
    \/ trigger_scoring
    \/ create_submission

SpecRun == InitSync /\ [][NextRun]_vars

(***************************************************************************)
(* The run's stages, status and events                                     *)
(***************************************************************************)
\* the reports of a run that meets no failure, in order
StageReports ==
    <<progress_event("cloning", 10), progress_event("analyzing", 20),
      progress_event("analyzing", 40), progress_event("ai_review", 50),
      progress_event("ai_review", 70), progress_event("ai_detection", 80),
      progress_event("deployment", 85), progress_event("scoring", 90),
      progress_event("completed", 100)>>

\* how many reports the scorer has made when it is at a stage's work
reports_at(pc) ==
    CASE pc = "cloning" -> 1
      [] pc = "repo_info" -> 2
      [] pc = "analyzing" -> 3
      [] pc = "code_files" -> 4
      [] pc = "ai_review" -> 5
      [] pc = "ai_detection" -> 6
      [] pc = "deployment" -> 7
      [] pc = "scoring" -> 8
      [] OTHER -> 0

\* C16: within one run the scorer reports 10, 20, 40, 50, 70, 80, 85, 90, 100
\* in that order, each stage once and none skipped; the only other report is
\* "failed", which ends the run and can follow any stage
C16_StagesInOrder ==
    LET n == Len(reported)
        is_failed == n > 0 /\ reported[n].stage = "failed"
        upto == IF is_failed THEN n - 1 ELSE n
    IN  /\ upto <= Len(StageReports)
        /\ \A i \in 1..upto : reported[i] = StageReports[i]
        /\ is_failed => /\ reported[n].progress = 0
                        /\ upto >= 1 /\ upto < Len(StageReports)
                        /\ spc = "returned" /\ score_result.status = "failed"
        /\ reports_at(spc) > 0 => n = reports_at(spc)
        /\ (spc = "returned" /\ ~is_failed) =>
              n = Len(StageReports) /\ score_result.status = "completed"

\* a run has reported its first three stages in order and then its failure
C16_Witness ==
    /\ spc = "returned"
    /\ Len(reported) = 4
    /\ reported[3] = progress_event("analyzing", 40)
    /\ reported[4] = progress_event("failed", 0)

\* C17: the row's status only moves pending -> processing -> completed or
\* failed, and a row that is completed or failed is never written again
C17_TerminalIsFinal ==
    [][sid' = sid =>
         /\ sub.status \in {"completed", "failed"} => sub' = sub
         /\ sub'.status # sub.status =>
               <<sub.status, sub'.status>> \in
                   {<<"pending", "processing">>, <<"processing", "completed">>,
                    <<"processing", "failed">>}]_vars

\* C18: after the failure event of a run no further progress event is
\* published for it, in particular no "completed" at 100
C18_NothingAfterFailed ==
    \A i \in 1..Len(events) : events[i].stage = "failed" => i = Len(events)

\* C19: a run whose clone and repository inspection succeeded, and whose AI
\* review gave no parsed verdict (whatever the deployment check and the
\* screenshot capture met), returns completed with all ten sub-scores, the
\* fallback's scores, strength and reason in it; a review that found the
\* breaker open invoked no provider
C19_DegradedRunCompletes ==
    /\ (spc = "returned" /\ ~ctx.fatal /\ ctx.ai # "verdict") =>
          /\ score_result.status = "completed"
          /\ score_result.error = ""
          /\ DOMAIN score_result.scores = ScoreKeys
          /\ \A k \in AIKeys : score_result.scores[k] = PyInt(6)
          /\ Len(score_result.strengths) >= 1
          /\ score_result.strengths[1] = "Code submitted for review"
          /\ Len(score_result.weaknesses) >= 2
          /\ score_result.weaknesses[2] = ctx.ai
    /\ (spc \in {"ai_detection", "deployment", "scoring", "returned"}
          /\ ctx.ai = "fallback_circuit_open") => ctx.invoked = 0
    /\ (spc = "ai_review" /\ tpc[Scorer] = "done"
          /\ result[Scorer] = "fallback_circuit_open") => invocations[Scorer] = 0

FallbackReasons ==
    {"fallback_no_client", "fallback_circuit_open", "fallback_parse",
     "fallback_rate_limited", "fallback_connection", "fallback_status",
     "fallback_failed"}

EXPECTED_FOLDERS == {"assets", "css", "js", "php"}
EXPECTED_HTML_FILES == {"index.html", "login.html", "profile.html", "register.html"}
EXPECTED_JS_FILES == {"js/login.js", "js/profile.js", "js/register.js"}
EXPECTED_PHP_FILES == {"php/login.php", "php/profile.php", "php/register.php"}
ExpectedItems ==
    EXPECTED_FOLDERS \cup EXPECTED_HTML_FILES \cup EXPECTED_JS_FILES \cup EXPECTED_PHP_FILES

\* a repository's expected items: a file under js/ or php/ needs its folder
is_tree(present) ==
    /\ (present \cap EXPECTED_JS_FILES # {}) => "js" \in present
    /\ (present \cap EXPECTED_PHP_FILES # {}) => "php" \in present
Trees == {present \in SUBSET ExpectedItems : is_tree(present)}

\* int(x) of a non-negative quotient num / den: truncation
py_int_div(num, den) == num \div den

\* round(x) of a non-negative quotient num / den: to nearest, ties to even
py_round_div(num, den) ==
    LET q == num \div den
        r == num % den
    IN  IF 2 * r > den \/ (2 * r = den /\ q % 2 = 1) THEN q + 1 ELSE q

\* a folder-structure score that counts the missing items for the found ones
analyze_folder_structure_missing(present) ==
    LET existing_folders == present \cap EXPECTED_FOLDERS
        existing_files == present \ EXPECTED_FOLDERS
        total_expected == Cardinality(ExpectedItems)
        total_found == Cardinality(ExpectedItems \ present)
    IN  [score |-> IF total_expected > 0
                   THEN py_int_div(total_found * 10, total_expected) ELSE 0,
         existing_folders |-> existing_folders,
         missing_folders |-> EXPECTED_FOLDERS \ existing_folders,
         existing_files |-> existing_files,
         missing_files |-> (ExpectedItems \ EXPECTED_FOLDERS) \ existing_files]

\* analyze_folder_structure: int((total_found / total_expected) * 10); the
\* double (k / 14) * 10 truncates to the same int as the exact 10k / 14
analyze_folder_structure(present) ==
    LET existing_folders == present \cap EXPECTED_FOLDERS
        existing_files == present \ EXPECTED_FOLDERS
        total_expected == Cardinality(ExpectedItems)
        total_found == Cardinality(existing_folders) + Cardinality(existing_files)
    IN  [score |-> IF total_expected > 0
                   THEN py_int_div(total_found * 10, total_expected) ELSE 0,
         existing_folders |-> existing_folders,
         missing_folders |-> EXPECTED_FOLDERS \ existing_folders,
         existing_files |-> existing_files,
         missing_files |-> (ExpectedItems \ EXPECTED_FOLDERS) \ existing_files]

\* .html files the model analyzes
MaxHtmlFiles == 2

RECURSIVE seqs_upto(_, _)
seqs_upto(S, n) ==
    IF n = 0 THEN {<<>>}
    ELSE LET shorter == seqs_upto(S, n - 1)
         IN  shorter \cup {Append(q, x) : q \in shorter, x \in S}

\* what an .html file holds: a <style>...</style> block or not; no <script>
\* with a body, one, or one that a <script src=...> follows; a <?php ... ?>
\* block or not
HtmlContents == [style : BOOLEAN, script : {"none", "inline", "inline_then_src"},
                 php : BOOLEAN]

\* re.findall(r"<style[^>]*>.*?</style>", content, re.DOTALL)
style_matches(content) == IF content.style THEN {"<style>"} ELSE {}

\* re.findall(r"<script[^>]*>(?!.*src\s*=)(.*?)</script>", content, re.DOTALL)
\* and the non-blank bodies among the matches: under DOTALL the lookahead
\* rejects an opening tag that any `src=` follows, to the end of the file
inline_scripts(content) == IF content.script = "inline" THEN {"<script>"} ELSE {}

\* re.findall(r"<\?php.*?\?>", content, re.DOTALL)
php_matches(content) == IF content.php THEN {"<?php"} ELSE {}

py_min(a, b) == IF a < b THEN a ELSE b

\* one file's issues, in the order the checks are made
file_issues(f, content) ==
    flag_if(style_matches(content) # {}, [file |-> f, issue |-> "inline_css"])
    \o flag_if(inline_scripts(content) # {}, [file |-> f, issue |-> "inline_js"])
    \o flag_if(php_matches(content) # {}, [file |-> f, issue |-> "php_in_html"])

\* a file-separation score that takes 3 off for inline code and 6 for PHP
RECURSIVE analyze_file_separation_deducting(_)
analyze_file_separation_deducting(html_files) ==
    IF html_files = <<>> THEN [score |-> 10, issues |-> <<>>]
    ELSE LET n == Len(html_files)
             res == analyze_file_separation_deducting(SubSeq(html_files, 1, n - 1))
             content == html_files[n]
             s1 == IF style_matches(content) # {} THEN res.score - 3 ELSE res.score
             s2 == IF inline_scripts(content) # {} THEN s1 - 3 ELSE s1
             s3 == IF php_matches(content) # {} THEN s2 - 6 ELSE s2
         IN  [score |-> IF s3 < 0 THEN 0 ELSE s3,
              issues |-> res.issues \o file_issues(n, content)]

\* analyze_file_separation: the files in the order os.walk gives them
RECURSIVE analyze_file_separation(_)
analyze_file_separation(html_files) ==
    IF html_files = <<>> THEN [score |-> 10, issues |-> <<>>]
    ELSE LET n == Len(html_files)
             res == analyze_file_separation(SubSeq(html_files, 1, n - 1))
             content == html_files[n]
             s1 == IF style_matches(content) # {} THEN py_min(res.score, 7)
                   ELSE res.score
             s2 == IF inline_scripts(content) # {} THEN py_min(s1, 7) ELSE s1
             s3 == IF php_matches(content) # {} THEN py_min(s2, 4) ELSE s2
         IN  [score |-> s3, issues |-> res.issues \o file_issues(n, content)]

call_analyze_file_separation(html_files) ==
    /\ fn = "none"
    /\ fn' = "analyze_file_separation"
    /\ arg' = html_files
    /\ ret' = analyze_file_separation(html_files)
    /\ UNCHANGED non_call_vars

\* commits in a repository's history, and code files handed to the detector
MaxCommits == 3
MaxCodeFiles == 3

\* a code file's content: "", fewer than three of the generic comment
\* phrases, or three and more of them
CodeContents == {"empty", "plain", "generic"}

\* get_repo_info's dict for a history of n commits
repo_info_of(n) == [total_commits |-> n, is_single_commit |-> (n = 1)]

\* _check_ai_style_comments: <<ai_style_files, total_files>>, the ratio's
\* terms; files without content are not counted; 0.0 is <<0, 1>>
check_ai_style_comments(code_files) ==
    LET counted == {i \in 1..Len(code_files) : code_files[i] # "empty"}
        ai_style == {i \in counted : code_files[i] = "generic"}
    IN  IF counted = {} THEN <<0, 1>>
        ELSE <<Cardinality(ai_style), Cardinality(counted)>>

\* detect_ai_generation; risk_score is in hundredths, as round(risk_score, 2)
\* leaves it: the double sum rounds to the nearest hundredth of the exact one
detect_ai_generation_of(repo_info, code_files, analysis, client, cb) ==
    LET single == IF repo_info.is_single_commit THEN 30 ELSE 0
        clean == IF analysis.fileSeparation = 10 THEN 10 ELSE 0
        few == IF repo_info.total_commits < 3 THEN 15 ELSE 0
        checked == client /\ ~is_open(cb)
        ratio == IF checked THEN check_ai_style_comments(code_files) ELSE <<0, 1>>
        base == single + clean + few
        risk == py_round_div(base * ratio[2] + 20 * ratio[1], ratio[2])
    IN  [risk_score |-> py_min(risk, 100),
         indicators |-> flag_if(repo_info.is_single_commit, "single_commit")
                        \o flag_if(clean > 0, "perfect_file_separation")
                        \o flag_if(few > 0, "few_commits")
                        \o flag_if(checked /\ 2 * ratio[1] > ratio[2],
                                   "ai_style_comments")]

call_detect_ai_generation(n, code_files, analysis, client, st) ==
    /\ fn = "none"
    /\ fn' = "detect_ai_generation"
    /\ arg' = [repo_info |-> repo_info_of(n), code_files |-> code_files,
               analysis_result |-> analysis, client |-> client,
               ai_circuit |-> [state |-> st]]
    /\ ret' = detect_ai_generation_of(repo_info_of(n), code_files, analysis,
                                      client, [state |-> st])
    /\ UNCHANGED non_call_vars

\* href attributes on the homepage the model follows
MaxLinks == 4

\* the deployment's URL as submitted, and the hrefs a homepage may hold
base_url == "https://site.test/"
Hrefs == {"a.html", "/a.html", "b.html", "c.php", "/", "style.css",
          "https://other.test/x.html", "//other.test/y.html"}

\* link.startswith(('http://', 'https://'))
starts_with_http(link) == link = "https://other.test/x.html"

\* urlparse(url).netloc
netloc(url) ==
    IF url \in {"https://other.test/x.html", "https://other.test/y.html"}
    THEN "other.test" ELSE "site.test"

\* urljoin(base_url, link)
urljoin(base, link) ==
    CASE link \in {"a.html", "/a.html"} -> "https://site.test/a.html"
      [] link = "b.html" -> "https://site.test/b.html"
      [] link = "c.php" -> "https://site.test/c.php"
      [] link = "/" -> "https://site.test/"
      [] link = "style.css" -> "https://site.test/style.css"
      [] link = "//other.test/y.html" -> "https://other.test/y.html"
      [] OTHER -> link

\* the extension test: .html, .htm, .php, a trailing slash, or no dot in the
\* last segment
is_document(link) == link # "style.css"

\* the homepage's own entry
homepage == [url |-> base_url, path |-> "/"]

\* the loop over all_links: <<discovered_pages, seen_urls>>; a HEAD probe of
\* a URL in `dead` answers 400 or more, or raises
RECURSIVE scan_links(_, _)
scan_links(all_links, dead) ==
    IF all_links = <<>> THEN << <<>>, {} >>
    ELSE LET n == Len(all_links)
             before == scan_links(SubSeq(all_links, 1, n - 1), dead)
             link == all_links[n]
             absolute_url == urljoin(base_url, link)
         IN  IF \/ (starts_with_http(link) /\ netloc(link) # netloc(base_url))
                \/ absolute_url \in before[2]
                \/ ~is_document(link)
                \/ absolute_url \in dead
             THEN before
             ELSE <<Append(before[1], [url |-> absolute_url, path |-> link]),
                    before[2] \cup {absolute_url}>>

\* _discover_all_pages: the GET of the homepage answers 200, another status,
\* or raises
discover_all_pages(get, all_links, dead) ==
    LET found == IF get = "200" THEN scan_links(all_links, dead) ELSE << <<>>, {} >>
    IN  IF base_url \notin found[2] THEN <<homepage>> \o found[1] ELSE found[1]

call_discover_all_pages(get, all_links, dead) ==
    /\ fn = "none"
    /\ fn' = "discover_all_pages"
    /\ arg' = [get |-> get, all_links |-> all_links, dead |-> dead]
    /\ ret' = discover_all_pages(get, all_links, dead)
    /\ UNCHANGED non_call_vars

\* the analyses the scorer is called on: a bootstrap score of 10 has the
\* stylesheet linked, one of 0 has not
AnalysisInputs ==
    {a \in [folderStructure : {0, 5, 10}, fileSeparation : {4, 7, 10},
            bootstrap : {0, 10}, bootstrap_linked : BOOLEAN, ajax_calls : {0, 2},
            form_submissions : {0}, prepared_statements : {0, 1},
            raw_sql_queries : {0}, localStorage : BOOLEAN,
            password_hashing : BOOLEAN, input_sanitization : BOOLEAN,
            mysql : BOOLEAN, mongodb : BOOLEAN, redis : {FALSE}] :
        a.bootstrap_linked <=> (a.bootstrap = 10)}

\* a verdict with the four categories, each scored v
verdict_of(v) ==
    [score |-> [k \in AIKeys |-> PyInt(v)], strengths |-> PyList(<<>>),
     weaknesses |-> PyList(<<>>), fallback |-> FALSE, fallback_reason |-> ""]

\* the verdict with an "overallScore" entry
with_overall(verdict, x) ==
    [k \in DOMAIN verdict \cup {"overallScore"} |->
        IF k = "overallScore" THEN x ELSE verdict[k]]

\* the overall scores a provider may report, null among them
OverallScores == {PyInt(x) : x \in {-5, 0, 49, 50, 59, 60, 69, 70, 79, 80, 89, 90,
                                     100, 150}} \cup {PyNone}

\* verdicts for a run without a rubric
PlainVerdicts ==
    {verdict_of(v) : v \in 0..5} \cup {default_quality_result("fallback_parse_error")}

\* verdicts for a run with a rubric: with and without an overall score, with
\* one category only, with none, and the fallback
RubricVerdicts ==
    {with_overall(verdict_of(4), x) : x \in OverallScores}
    \cup {verdict_of(v) : v \in 0..5}
    \cup {[verdict_of(4) EXCEPT !.score = [k \in {"security"} |-> PyInt(2)]],
          [verdict_of(4) EXCEPT !.score = EmptyDict],
          default_quality_result("fallback_parse_error")}

\* a rubric scoring that never takes the verdict's overall score
calculate_custom_scores_averaging(ai_evaluation, deployment_result) ==
    LET scored == DOMAIN ai_evaluation.score
        total == py_sum_over(ai_evaluation.score, scored)
        count == Cardinality(scored)
        overallScore ==
            IF total.t = "raise" THEN PyRaise
            ELSE IF count > 0 THEN PyInt(py_int_div(total.v * 100, count * 5))
            ELSE PyInt(50)
        scores ==
            [k \in AIKeys \cup {"overallScore", "deployment"} |->
                CASE k = "overallScore" -> overallScore
                  [] k = "deployment" -> PyInt(deployment_result.deployment_score)
                  [] k \in scored -> py_double(ai_evaluation.score[k])
                  [] OTHER -> PyInt(0)]
    IN  IF \E k \in DOMAIN scores : scores[k].t = "raise" THEN PyRaise
        ELSE PyDict(scores)

\* _calculate_custom_scores: int((total / max(count, 1) / 5) * 100) truncates
\* to the same int as the exact quotient
calculate_custom_scores(ai_evaluation, deployment_result) ==
    LET scored == DOMAIN ai_evaluation.score
        total == py_sum_over(ai_evaluation.score, scored)
        count == Cardinality(scored)
        overallScore ==
            IF "overallScore" \in DOMAIN ai_evaluation THEN ai_evaluation.overallScore
            ELSE IF total.t = "raise" THEN PyRaise
            ELSE IF count > 0 THEN PyInt(py_int_div(total.v * 100, count * 5))
            ELSE PyInt(50)
        scores ==
            [k \in AIKeys \cup {"overallScore", "deployment"} |->
                CASE k = "overallScore" -> overallScore
                  [] k = "deployment" -> PyInt(deployment_result.deployment_score)
                  [] k \in scored -> py_double(ai_evaluation.score[k])
                  [] OTHER -> PyInt(0)]
    IN  IF \E k \in DOMAIN scores : scores[k].t = "raise" THEN PyRaise
        ELSE PyDict(scores)

\* steps 8, 10 and 11 of score_submission: the scores, the overall score, the
\* grade and its recommendation; rules is whether self.rules_text is set
score_card(rules, analysis, ai_evaluation, deployment_result) ==
    LET scores == IF rules THEN calculate_custom_scores(ai_evaluation, deployment_result)
                  ELSE calculate_traditional_scores(analysis, ai_evaluation,
                                                    deployment_result)
        overall == calculate_overall_score(scores.v)
    IN  IF scores.t = "raise" \/ overall.t = "raise" THEN PyRaise
        ELSE [t |-> "card", scores |-> scores.v, overall_score |-> overall.v,
              grade |-> first_threshold(overall.v).grade,
              recommendation |-> first_threshold(overall.v).recommendation]

call_score_card(rules, analysis, ai_evaluation, deployment_result) ==
    /\ fn = "none"
    /\ fn' = "score_card"
    /\ arg' = [rules |-> rules, analysis |-> analysis, ai_evaluation |-> ai_evaluation,
               deployment_result |-> deployment_result]
    /\ ret' = score_card(rules, analysis, ai_evaluation, deployment_result)
    /\ UNCHANGED non_call_vars

(***************************************************************************)
(* resilience.py with_retry and the review loop of ai_reviewer.py: the     *)
(* sleeps of one call, in seconds, given how its attempts end              *)
(***************************************************************************)
\* `base_delay = 1.0` of the review loop
review_base_delay == 1

\* `max_delay: float = 10.0`, the default of with_retry
default_max_delay == 10

\* base_delay and max_delay a with_retry wrapper is built with
RetryBaseDelays == {1, 4}
RetryMaxDelays == {2, 10}

\* 2 ** n
RECURSIVE pow2(_)
pow2(n) == IF n = 0 THEN 1 ELSE 2 * pow2(n - 1)

\* a delay that max_delay does not cap
with_retry_delay_uncapped(base_delay, max_delay, exponential_backoff, a) ==
    IF exponential_backoff THEN base_delay * pow2(a) ELSE base_delay

\* lines 165-168 and 193-196: the delay after failed attempt a
with_retry_delay(base_delay, max_delay, exponential_backoff, a) ==
    IF exponential_backoff THEN py_min(base_delay * pow2(a), max_delay) ELSE base_delay

\* `for attempt in range(max_retries + 1)` from attempt a on: the sleeps made
\* and the attempts taken when attempt i ends as outcomes[i + 1]
RECURSIVE with_retry_sleeps(_, _, _, _, _, _)
with_retry_sleeps(retries, base_delay, max_delay, exponential_backoff, outcomes, a) ==
    IF with_retry_retries(outcomes[a + 1], a) /\ a < retries
    THEN LET rest == with_retry_sleeps(retries, base_delay, max_delay,
                                       exponential_backoff, outcomes, a + 1)
         IN  [sleeps |-> <<with_retry_delay(base_delay, max_delay,
                                            exponential_backoff, a)>> \o rest.sleeps,
              attempts |-> rest.attempts]
    ELSE [sleeps |-> <<>>, attempts |-> a + 1]

\* ai_reviewer.py lines 122-152: `delay = base_delay * (2 ** attempt)`, times 2
\* after RateLimitError
review_delay(e, a) ==
    IF e = "rate_limit" THEN review_base_delay * pow2(a) * 2
    ELSE review_base_delay * pow2(a)

\* the review loop from attempt a on
RECURSIVE review_sleeps(_, _)
review_sleeps(outcomes, a) ==
    IF review_retries(outcomes[a + 1]) /\ a < max_retries
    THEN LET rest == review_sleeps(outcomes, a + 1)
         IN  [sleeps |-> <<review_delay(outcomes[a + 1], a)>> \o rest.sleeps,
              attempts |-> rest.attempts]
    ELSE [sleeps |-> <<>>, attempts |-> a + 1]

\* a function wrapped by with_retry is called
call_with_retry(base_delay, max_delay, exponential_backoff, outcomes) ==
    /\ fn = "none"
    /\ fn' = "with_retry"
    /\ arg' = [base_delay |-> base_delay, max_delay |-> max_delay,
               exponential_backoff |-> exponential_backoff, outcomes |-> outcomes]
    /\ ret' = with_retry_sleeps(max_retries, base_delay, max_delay,
                                exponential_backoff, outcomes, 0)
    /\ UNCHANGED non_call_vars

\* review_code_quality is called with a client and the breaker not open
call_review_code_quality(outcomes) ==
    /\ fn = "none"
    /\ fn' = "review_code_quality"
    /\ arg' = outcomes
    /\ ret' = review_sleeps(outcomes, 0)
    /\ UNCHANGED non_call_vars

\* analyze_folder_structure is called on a repository
call_analyze_folder_structure(present) ==
    /\ fn = "none"
    /\ fn' = "analyze_folder_structure"
    /\ arg' = present
    /\ ret' = analyze_folder_structure(present)
    /\ UNCHANGED non_call_vars

\* the repository gains one expected item and is analyzed again
add_expected_item(x) ==
    /\ fn = "analyze_folder_structure"
    /\ x \notin arg
    /\ is_tree(arg \cup {x})
    /\ arg' = arg \cup {x}
    /\ ret' = analyze_folder_structure(arg \cup {x})
    /\ UNCHANGED <<fn, non_call_vars>>

\* the functions are called once each run of the model, from the initial state
analysis_calls ==
    \/ \E present \in Trees : call_analyze_folder_structure(present)
    \/ \E html_files \in seqs_upto(HtmlContents, MaxHtmlFiles) :
          call_analyze_file_separation(html_files)
    \/ \E n \in 0..MaxCommits, code_files \in seqs_upto(CodeContents, MaxCodeFiles),
          fs \in {4, 7, 10}, fo \in {0, 7, 10}, client \in BOOLEAN,
          st \in {CLOSED, OPEN, HALF_OPEN} :
          call_detect_ai_generation(n, code_files,
                                    [fileSeparation |-> fs, folderStructure |-> fo],
                                    client, st)
    \/ \E get \in {"200", "404", "raise"}, all_links \in seqs_upto(Hrefs, MaxLinks),
          dead \in {{}, {"https://site.test/b.html"}} :
          call_discover_all_pages(get, all_links, dead)
    \/ \E analysis \in AnalysisInputs, ai_evaluation \in PlainVerdicts,
          has_url \in BOOLEAN, reachable \in BOOLEAN :
          call_score_card(FALSE, analysis, ai_evaluation,
                          check_deployment(has_url, reachable))
    \/ \E analysis \in Analyses, ai_evaluation \in RubricVerdicts,
          has_url \in BOOLEAN, reachable \in BOOLEAN :
          call_score_card(TRUE, analysis, ai_evaluation,
                          check_deployment(has_url, reachable))

(***************************************************************************)
(* commit_analyzer.py: the risk of a commit history.  Dates are minutes,   *)
(* None a date that does not parse; the risk is a fraction num / den.      *)
(***************************************************************************)
\* commits in a history
MaxHistory == 11

\* minutes in a day
DAY == 1440

\* minutes between one commit of a history and the next
CommitGaps == {0, 20, 144, 300, 1440}

\* first lines of commit messages: one that matches nothing, one shorter
\* than 15 characters, one that matches AI_COMMIT_PATTERNS ("Implement ..."),
\* and a conventional one ("feat: ..."), which matches `^\w+: \w+` too
MessageKinds == {"plain", "short", "ai", "conventional"}

\* the commit list of the API, newest first
history(n, gap, kind, dated) ==
    [i \in 1..n |-> [date |-> IF dated THEN (n - i) * gap ELSE None, kind |-> kind]]

\* _analyze_commit_patterns: the counters _calculate_ai_risk reads
analyze_commit_patterns(commits) ==
    LET count(kinds) == Cardinality({i \in DOMAIN commits : commits[i].kind \in kinds})
    IN  [ai_pattern_matches |-> count({"ai", "conventional"}),
         short_messages |-> count({"short"}),
         conventional_commits |-> count({"conventional"})]

\* _analyze_timeline: total_days (here in minutes) is max(1, span) once two
\* dates parsed and 0 otherwise; commits_per_day = len(commits) / total_days
\* is kept as its two comparisons; a bulk session is dates[i + 2] - dates[i]
\* under an hour in the sorted dates
analyze_timeline(commits) ==
    LET at == {j \in DOMAIN commits : commits[j].date # None}
        dates == {commits[i].date : i \in at}
        oldest == CHOOSE d \in dates : \A e \in dates : d <= e
        newest == CHOOSE d \in dates : \A e \in dates : e <= d
        total == IF Cardinality(at) >= 2
                 THEN (IF newest - oldest > DAY THEN newest - oldest ELSE DAY)
                 ELSE 0
        \* the commits arrive newest first: sorted, date k is that of commit n + 1 - k
        sorted(k) == commits[Len(commits) + 1 - k].date
    IN  [total_days |-> total,
         per_day_over_5 |-> total > 0 /\ Len(commits) * DAY > 5 * total,
         per_day_over_3 |-> total > 0 /\ Len(commits) * DAY > 3 * total,
         bulk_commit_sessions |->
            IF Cardinality(at) < 3 THEN 0
            ELSE Cardinality({k \in 1..(Len(commits) - 2) : sorted(k + 2) - sorted(k) < 60})]

\* factors 3, 4 and 6 of _calculate_ai_risk, in hundredths
other_factors(total_commits, patterns, timeline) ==
    (IF timeline.per_day_over_5 THEN 20 ELSE IF timeline.per_day_over_3 THEN 10 ELSE 0)
    + (IF timeline.bulk_commit_sessions > 2 THEN 15 ELSE 0)
    + (IF patterns.conventional_commits = total_commits /\ total_commits > 5
       THEN 10 ELSE 0)

\* factor 5 of _calculate_ai_risk, in hundredths
duration_factor(total_commits, timeline) ==
    IF timeline.total_days < DAY /\ total_commits > 5 THEN 25
    ELSE IF timeline.total_days < 3 * DAY /\ total_commits > 10 THEN 15
    ELSE 0

\* min(1.0, risk) as a fraction over 100 * total_commits
risk_fraction(total_commits, patterns, factors) ==
    IF total_commits = 0 THEN [num |-> 0, den |-> 1]
    ELSE [num |-> py_min(100 * total_commits,
                         25 * patterns.ai_pattern_matches + 15 * patterns.short_messages
                         + total_commits * factors),
          den |-> 100 * total_commits]

\* _calculate_ai_risk(commits, patterns, timeline)
calculate_ai_risk(commits, patterns, timeline) ==
    risk_fraction(Len(commits), patterns,
                  other_factors(Len(commits), patterns, timeline)
                  + duration_factor(Len(commits), timeline))

\* analyze_commits, lines 114-125, on a commit list that is not empty, or
\* _calculate_ai_risk on an empty one
call_calculate_ai_risk(commits) ==
    /\ fn = "none"
    /\ fn' = "calculate_ai_risk"
    /\ arg' = commits
    /\ ret' = calculate_ai_risk(commits, analyze_commit_patterns(commits),
                                analyze_timeline(commits))
    /\ UNCHANGED non_call_vars

\* the retry loops are called with every way their attempts can end
retry_calls ==
    \/ \E base_delay \in RetryBaseDelays, max_delay \in RetryMaxDelays,
          exponential_backoff \in BOOLEAN,
          outcomes \in [1..max_retries + 1 -> RetryOutcomes] :
          call_with_retry(base_delay, max_delay, exponential_backoff, outcomes)
    \/ \E outcomes \in [1..max_retries + 1 -> ProviderOutcomes] :
          call_review_code_quality(outcomes)

\* the commit analysis is called on histories of every size, pace and wording
history_calls ==
    \E n \in 0..MaxHistory, gap \in CommitGaps, kind \in MessageKinds, dated \in BOOLEAN :
       call_calculate_ai_risk(history(n, gap, kind, dated))

NextAnalysis ==
    \/ (fn = "none" /\ analysis_calls)
    \/ (fn = "none" /\ retry_calls)
    \/ (fn = "none" /\ history_calls)
    \/ \E x \in ExpectedItems : add_expected_item(x)

SpecAnalysis == InitSync /\ [][NextAnalysis]_vars

(***************************************************************************)
(* The analyzers' scores                                                   *)
(***************************************************************************)
\* C25: for every number of present expected items the folder-structure
\* score is round(10 * present / 14)
C25_ScoreIsRounded ==
    fn = "analyze_folder_structure" =>
        ret.score = py_round_div(10 * Cardinality(arg), Cardinality(ExpectedItems))

\* C26: the folder-structure score is between 0 and 10, and a repository that
\* gains an expected item without losing any never scores lower
C26_ScoreMonotonic ==
    /\ [](fn = "analyze_folder_structure" => ret.score \in 0..10)
    /\ [][(fn = "analyze_folder_structure" /\ fn' = fn /\ arg \subseteq arg')
             => ret.score <= ret'.score]_vars

\* a repository with 9 items scored 6 has just gained a tenth and scores 7
C26_Witness ==
    /\ fn = "analyze_folder_structure"
    /\ Cardinality(arg) = 10
    /\ ret.score = 7
    /\ "js/login.js" \in arg

\* C27: the file-separation score is the worst cap among the issues found in
\* any file, in any order: 4 when PHP in HTML was found (alone or with inline
\* style or script, in the same file or another), 7 when only inline style or
\* script was found, 10 when nothing was; never below 4
C27_ScoreIsWorstCap ==
    fn = "analyze_file_separation" =>
        LET kinds == {ret.issues[i].issue : i \in 1..Len(ret.issues)}
            any_php == \E f \in 1..Len(arg) : arg[f].php
            any_style == \E f \in 1..Len(arg) : arg[f].style
            any_script == \E f \in 1..Len(arg) : arg[f].script = "inline"
        IN  /\ ret.score = IF "php_in_html" \in kinds THEN 4
                           ELSE IF kinds # {} THEN 7 ELSE 10
            /\ any_php => ret.score = 4
            /\ ((any_style \/ any_script) /\ ~any_php) => ret.score = 7
            /\ ret.score \in {4, 7, 10}
            /\ "php_in_html" \in kinds <=> any_php
            /\ "inline_css" \in kinds <=> any_style

\* a file with an inline style and PHP, then a file with an inline script
C27_Witness ==
    /\ fn = "analyze_file_separation"
    /\ Len(arg) = 2
    /\ arg[1] = [style |-> TRUE, script |-> "none", php |-> TRUE]
    /\ arg[2] = [style |-> FALSE, script |-> "inline", php |-> FALSE]
    /\ Len(ret.issues) = 3
    /\ ret.score = 4

\* C28: the risk is 0.30 for a single-commit history, plus 0.10 for a perfect
\* folder-structure score, plus 0.15 for fewer than 3 commits, plus 0.20 times
\* the fraction of files with generic comments unless the provider is
\* unconfigured or its breaker open, clamped to [0,1] (to the hundredth reported)
C28_RiskFormula ==
    fn = "detect_ai_generation" =>
        LET base == (IF arg.repo_info.total_commits = 1 THEN 30 ELSE 0)
                  + (IF arg.analysis_result.folderStructure = 10 THEN 10 ELSE 0)
                  + (IF arg.repo_info.total_commits < 3 THEN 15 ELSE 0)
            ratio == IF arg.client /\ arg.ai_circuit.state # OPEN
                     THEN check_ai_style_comments(arg.code_files) ELSE <<0, 1>>
            risk == py_round_div(base * ratio[2] + 20 * ratio[1], ratio[2])
        IN  ret.risk_score = py_min(risk, 100)

(***************************************************************************)
(* Page discovery                                                          *)
(***************************************************************************)
\* C29: the pages discovered are the homepage, first and once, then every
\* same-origin document link whose probe succeeded, once per resolved URL and
\* in link order, and no link of another origin; so three distinct same-origin
\* links and one external link give four entries; also when a link resolves
\* to the homepage and when the homepage cannot be fetched
C29_HomepageFirstThenLinks ==
    fn = "discover_all_pages" =>
        LET urls == [i \in 1..Len(ret) |-> ret[i].url]
            links == IF arg.get = "200" THEN arg.all_links ELSE <<>>
            wanted == {urljoin(base_url, links[i]) : i \in
                         {j \in 1..Len(links) :
                             /\ netloc(urljoin(base_url, links[j])) = netloc(base_url)
                             /\ is_document(links[j])
                             /\ urljoin(base_url, links[j]) \notin arg.dead}}
        IN  /\ Len(ret) >= 1
            /\ urls[1] = base_url
            /\ \A i, j \in 1..Len(ret) : urls[i] = urls[j] => i = j
            /\ \A i \in 1..Len(ret) : netloc(urls[i]) = netloc(base_url)
            /\ {urls[i] : i \in 1..Len(ret)} = wanted \cup {base_url}

(***************************************************************************)
(* The overall score and the grade                                         *)
(***************************************************************************)
\* C22: a score card's overall score is an integer from 0 to 100, and its
\* grade and recommendation are those of the first threshold it reaches:
\* A+ from 90, A from 80, B from 70, C from 60, D from 50, F below
C22_GradeFollowsThresholds ==
    (fn = "score_card" /\ ret.t = "card") =>
        LET o == ret.overall_score
            is(g, r) == ret.grade = g /\ ret.recommendation = r
        IN  /\ o \in 0..100
            /\ o >= 90 => is("A+", "Strong interview candidate")
            /\ (o >= 80 /\ o < 90) => is("A", "Interview recommended")
            /\ (o >= 70 /\ o < 80) => is("B", "Consider for interview")
            /\ (o >= 60 /\ o < 70) => is("C", "Request more information")
            /\ (o >= 50 /\ o < 60) => is("D", "Reject with feedback")
            /\ o < 50 => is("F", "Auto-reject")

\* a score card without a rubric whose overall score is exactly 70
C22_Witness ==
    /\ fn = "score_card"
    /\ ~arg.rules
    /\ ret.t = "card"
    /\ ret.overall_score = 70
    /\ ret.grade = "B"

\* C23: without a rubric the overall score is the sum of the analyzers' and
\* the verdict's sub-scores; file separation 10, AJAX 10, bootstrap 10,
\* prepared statements 10, MySQL 8, MongoDB 0, Redis 0, localStorage 0, the
\* four AI categories 4 each, folder structure 10 and deployment 0 give 74, B
C23_OverallIsSubScoreSum ==
    (fn = "score_card" /\ ~arg.rules /\ ret.t = "card") =>
        LET a == arg.analysis
            ai == arg.ai_evaluation.score
            jqueryAjax == IF a.form_submissions > 0 /\ a.ajax_calls = 0 THEN 0
                          ELSE IF a.form_submissions > 0 THEN 4
                          ELSE IF a.ajax_calls = 0 THEN 5 ELSE 10
            preparedStatements == IF a.raw_sql_queries > 0 /\ a.prepared_statements = 0 THEN 0
                                  ELSE IF a.raw_sql_queries > 0 THEN 5
                                  ELSE IF a.prepared_statements = 0 THEN 5 ELSE 10
            sub_scores == a.fileSeparation + jqueryAjax + a.bootstrap + preparedStatements
                          + (IF a.mysql THEN 8 ELSE 0) + (IF a.mongodb THEN 8 ELSE 0)
                          + (IF a.redis THEN 5 ELSE 0) + (IF a.localStorage THEN 4 ELSE 0)
                          + py_sum_over(ai, DOMAIN ai).v
                          + a.folderStructure + arg.deployment_result.deployment_score
            scenario == /\ a.fileSeparation = 10 /\ jqueryAjax = 10 /\ a.bootstrap = 10
                        /\ preparedStatements = 10
                        /\ a.mysql /\ ~a.mongodb /\ ~a.redis /\ ~a.localStorage
                        /\ \A k \in AIKeys : ai[k] = PyInt(4)
                        /\ a.folderStructure = 10
                        /\ arg.deployment_result.deployment_score = 0
        IN  /\ ret.overall_score = clamp_0_100(sub_scores)
            /\ scenario => (ret.overall_score = 74 /\ ret.grade = "B")

Stalled == "c1"

\* the broadcast of event n is scheduled, or has started and not returned
in_flight(n) ==
    \/ \E i \in DOMAIN ready : ready[i].n = n
    \/ \E b \in Bcasts : bev[b].n = n

\* `await ws_manager.broadcast_progress(submission_id, ...)` is called
await_broadcast_progress ==
    /\ ready' = Append(ready, [sub |-> Watched, n |-> published + 1])
    /\ published' = published + 1
    /\ UNCHANGED <<registry_vars, used, alive, bpc, bev, todo, cur, waiting,
                   sendok, failed, snap, inbox, left>>

\* lines 44-53: the status update, then the "initializing" broadcast is awaited
process_submission_initializing ==
    /\ wpc = "idle"
    /\ sub' = [sub EXCEPT !.status = "processing"]
    /\ wpc' = "await_initializing"
    /\ await_broadcast_progress
    /\ UNCHANGED <<sid, spc, score_result, ctx, reported, events, runs, triggers,
                   breaker_vars, async_vars, thread_vars, cache_vars, call_vars, batch_vars, rerun_vars>>

\* lines 55-82: the broadcast has returned; score_submission goes to the executor
process_submission_executor ==
    /\ wpc = "await_initializing"
    /\ ~in_flight(published)
    /\ wpc' = "executor"
    /\ spc' = "start"
    /\ UNCHANGED <<sub, sid, score_result, ctx, reported, events, runs, triggers,
                   non_run_vars>>

\* score_submission returns its result: the analysis step has raised
score_submission_returns ==
    /\ spc = "start"
    /\ score_result' = [ResultDefaults EXCEPT !.status = "failed", !.error = "error"]
    /\ spc' = "returned"
    /\ UNCHANGED <<sub, sid, wpc, ctx, reported, events, runs, triggers, non_run_vars>>

\* lines 88-98, or lines 102-118 after the database raised: the terminal
\* broadcast is awaited
process_submission_terminal ==
    /\ wpc \in {"saved", "except"}
    /\ sub' = IF wpc = "except"
              THEN [sub EXCEPT !.status = "failed", !.error_message = "error"]
              ELSE sub
    /\ wpc' = "await_terminal"
    /\ await_broadcast_progress
    /\ UNCHANGED <<sid, spc, score_result, ctx, reported, events, runs, triggers,
                   breaker_vars, async_vars, thread_vars, cache_vars, call_vars, batch_vars, rerun_vars>>

\* the terminal broadcast has returned and process_submission ends
process_submission_end ==
    /\ wpc = "await_terminal"
    /\ ~in_flight(published)
    /\ wpc' = "done"
    /\ UNCHANGED <<sub, sid, spc, score_result, ctx, reported, events, runs, triggers,
                   non_run_vars>>

\* the steps of process_submission
process_submission_step ==
    \/ process_submission_initializing
    \/ process_submission_executor
    \/ score_submission_returns
    \/ \E db_ok \in BOOLEAN : process_submission_save(db_ok)
    \/ process_submission_terminal
    \/ process_submission_end

\* a pending send_json returns or raises, on any connection but the stalled one
send_json_completes ==
    \E b \in Bcasts : cur[b] # Stalled /\ (broadcast_next(b) \/ broadcast_return(b))

NextStall ==
    \/ \E c \in Conns : hub_connect(c) \/ hub_disconnect(c) \/ socket_break(c)
    \/ \E c \in Conns : hub_subscribe(c, Watched) \/ hub_unsubscribe(c, Watched)
    \/ \E b \in Bcasts : broadcast_start(b)
    \/ send_json_completes
    \/ process_submission_step

\* the event loop runs every coroutine that can run, the executor runs the
\* scorer, and every send_json but the stalled observer's completes
SpecStall ==
    /\ InitSync
    /\ [][NextStall]_vars
    /\ WF_vars(process_submission_step)
    /\ WF_vars(\E b \in Bcasts : broadcast_start(b))
    /\ WF_vars(send_json_completes)

\* C30: while one observer's send never completes, process_submission still
\* comes to its end: the run reaches a terminal status, the result is saved
\* and the terminal broadcast returns
C30_StalledObserverCannotStall ==
    <>(wpc = "done")

C32_RunTerminates ==
    /\ spc = "returned" => score_result.status \in {"completed", "failed"}
    /\ invocations[Scorer] <= max_retries + 1
    /\ (wpc = "done" /\ triggers = 0) => sub.status = score_result.status

C34_ShortHistoryAddsRisk ==
    (fn = "calculate_ai_risk" /\ \A i \in DOMAIN arg : arg[i].date # None) =>
        LET total_commits == Len(arg)
            span == IF total_commits >= 2 THEN arg[1].date - arg[total_commits].date ELSE 0
            patterns == analyze_commit_patterns(arg)
            claimed == IF span < DAY /\ total_commits > 5 THEN 25
                       ELSE IF span < 3 * DAY /\ total_commits > 10 THEN 15
                       ELSE 0
        IN  ret = risk_fraction(total_commits, patterns,
                                other_factors(total_commits, patterns, analyze_timeline(arg))
                                + claimed)

(***************************************************************************)
(* A repository whose commit list cannot be fetched: the commit history    *)
(* route (routes/submissions.py, analyze_commits) is called next to the    *)
(* repository's run.                                                       *)
(***************************************************************************)
NextHistoryRun ==
    \/ NextRun
    \/ \E r \in Runs : analyze_commits_step(r)

SpecHistoryRun == InitSync /\ [][NextHistoryRun]_vars

\* C35: a commit-list request that is answered with an error status ends
\* analyze_commits without raising, with the result of no commits and an
\* error finding; and the run of a repository that was cloned and inspected
\* returns completed
C35_NotFoundStillCompletes ==
    /\ [][\A r \in Runs :
            (arun[r] = "fetch" /\ arun'[r] # "fetch" /\ has_error(aresult'[r])) =>
               /\ arun'[r] = "done"
               /\ aresult'[r] = ErrorResult]_vars
    /\ [](spc = "returned" /\ ~ctx.fatal => score_result.status = "completed")

(***************************************************************************)
(* The hub's two indexes                                                   *)
(***************************************************************************)
\* C36: after any connects, subscribes, unsubscribes, disconnects and
\* broadcasts, connection c is in the subscriber set of run s exactly when c
\* is connected and s is in c's submission_ids, so every id in a subscriber
\* set is a connected observer
C36_IndexesAgree ==
    /\ \A c \in Conns : \A s \in Subs :
          (c \in subscribers(subscriptions, s))
             <=> (c \in DOMAIN connections /\ s \in connections[c].submission_ids)
    /\ \A s \in DOMAIN subscriptions : subscriptions[s] \subseteq DOMAIN connections

\* c1 has come and gone, a broadcast has cleaned up after a send that
\* raised or a route disconnected it, c2 is subscribed to one run and has
\* unsubscribed from the other, whose subscriber set is left empty
C36_Witness ==
    /\ "c1" \in left \ DOMAIN connections
    /\ published > 0
    /\ "c2" \in DOMAIN connections
    /\ connections["c2"].submission_ids = {"s2"}
    /\ "s1" \in DOMAIN subscriptions
    /\ subscriptions["s1"] = {}
    /\ subscribers(subscriptions, "s2") = {"c2"}

(***************************************************************************)
(* The breaker's counter                                                   *)
(***************************************************************************)
\* C37: whenever no thread is between the first and the last write of a
\* recorded success or failure, a breaker that is closed has counted fewer
\* failures than its threshold
C37_ClosedBelowThreshold ==
    (/\ \A t \in Threads :
           tpc[t] \notin {"rs_state", "rf_store", "rf_branch",
                          "sw_s_state", "sw_f_store", "sw_f_branch"}
     /\ ai_circuit.state = CLOSED)
       => ai_circuit.failure_count < ai_circuit.failure_threshold


(***************************************************************************)
(* Batches: routes/batches.py, services/batch_processor.py and the         *)
(* worker's process_submission on the rows of a batch.                     *)
(***************************************************************************)

\* the statuses with which a run leaves a submission's row
Terminal == {"completed", "failed"}

\* select(func.count(Submission.id)) over the batch's rows of one status
count_status(rws, st) == Cardinality({s \in BatchSubs : rws[s] = st})

\* select(func.count(Submission.id)) over all the batch's rows
count_rows(rws) == Cardinality({s \in BatchSubs : rws[s] # "none"})

\* models/batch.py SubmissionBatch.can_start
can_start(b) == b.status = "pending" /\ b.total_submissions > 0

\* the three counts that both update_batch_progress functions store
recount(b, rws) ==
    [b EXCEPT !.total_submissions = count_rows(rws),
              !.completed_submissions = count_status(rws, "completed"),
              !.failed_submissions = count_status(rws, "failed")]

\* routes/batches.py update_batch_progress
update_batch_progress(b, rws) ==
    LET counted == recount(b, rws)
    IN  IF /\ b.status = "processing"
           /\ counted.completed_submissions + counted.failed_submissions
                 >= counted.total_submissions
        THEN [counted EXCEPT !.status = "completed"]
        ELSE counted

\* services/batch_processor.py BatchProcessor.update_batch_progress
BatchProcessor_update_batch_progress(b, rws) ==
    LET counted == recount(b, rws)
    IN  IF /\ b.status = "processing"
           /\ counted.completed_submissions + counted.failed_submissions
                 >= counted.total_submissions
           /\ counted.total_submissions > 0
        THEN [counted EXCEPT !.status = "completed"]
        ELSE counted

\* routes/batches.py add_submission_to_batch: the row is created pending and
\* counted; a processing batch schedules its run as a background task
add_submission_to_batch(s) ==
    /\ rows[s] = "none"
    /\ rows' = [rows EXCEPT ![s] = "pending"]
    /\ batch' = [batch EXCEPT !.total_submissions = @ + 1]
    /\ tasks' = IF batch.status = "processing" THEN tasks \cup {s} ELSE tasks
    /\ UNCHANGED non_batch_vars

\* routes/batches.py start_batch_processing: a run is scheduled for every
\* pending row
start_batch_processing ==
    /\ can_start(batch)
    /\ batch' = [batch EXCEPT !.status = "processing"]
    /\ tasks' = tasks \cup {s \in BatchSubs : rows[s] = "pending"}
    /\ UNCHANGED <<rows, non_batch_vars>>

\* a scheduled task runs: background_tasks.add_task passes process_submission
\* five positional arguments, which its three parameters reject with
\* TypeError before any statement of it runs
background_task(s) ==
    /\ s \in tasks
    /\ tasks' = tasks \ {s}
    /\ UNCHANGED <<batch, rows, non_batch_vars>>

\* workers/scoring_worker.py, run standalone or through queue_submission:
\* process_submission(submission_id, github_url, hosted_url) marks the row
process_submission_row_start(s) ==
    /\ rows[s] \notin {"none", "processing"}
    /\ rows' = [rows EXCEPT ![s] = "processing"]
    /\ UNCHANGED <<batch, tasks, non_batch_vars>>

\* ... and ends with update_submission_results or the handler's "failed";
\* nothing of it reads or writes the batch
process_submission_row_end(s, st) ==
    /\ rows[s] = "processing"
    /\ rows' = [rows EXCEPT ![s] = st]
    /\ UNCHANGED <<batch, tasks, non_batch_vars>>

NextBatch ==
    \/ \E s \in BatchSubs : add_submission_to_batch(s)
    \/ start_batch_processing
    \/ \E s \in BatchSubs : background_task(s)
    \/ \E s \in BatchSubs : process_submission_row_start(s)
    \/ \E s \in BatchSubs, st \in Terminal : process_submission_row_end(s, st)

SpecBatch == InitSync /\ [][NextBatch]_vars

\* C38: a started batch whose submissions have all been processed is
\* completed, and its counters are those of its rows: whenever no run of the
\* batch is scheduled or in progress, the batch row is as update_batch_progress
\* leaves it, in the routes' version and in BatchProcessor's.
C38_BatchRefreshed ==
    (/\ batch.status \in {"processing", "completed"}
     /\ tasks = {}
     /\ \A s \in BatchSubs : rows[s] # "processing")
        => /\ batch = update_batch_progress(batch, rows)
           /\ batch = BatchProcessor_update_batch_progress(batch, rows)


(***************************************************************************)
(* process_submission called more than once on one submission id: the      *)
(* invocations share the row and the directory repos_dir/<submission_id>.  *)
(***************************************************************************)

\* the invocations that have started and not ended
in_progress == {w \in Workers : rpc[w] \notin {"idle", "done"}}

\* scoring_worker.py lines 44-53: process_submission(submission_id,
\* github_url, hosted_url), as queue_submission and the standalone worker
\* call it, checks neither the row's status nor any other invocation
rerun_start(w) ==
    /\ rpc[w] = "idle"
    /\ row' = [status |-> "processing", by |-> w]
    /\ rpc' = [rpc EXCEPT ![w] = "rmtree"]
    /\ UNCHANGED <<workdir, non_rerun_vars>>

\* repo_cloner.py clone, lines 76-80: the directory of the id is removed
rerun_rmtree(w) ==
    /\ rpc[w] = "rmtree"
    /\ workdir' = "absent"
    /\ rpc' = [rpc EXCEPT ![w] = "clone_from"]
    /\ UNCHANGED <<row, non_rerun_vars>>

\* repo_cloner.py clone, lines 82-89: git refuses a directory that another
\* invocation has filled since the rmtree, and may fail on its own; the
\* exception is caught by score_submission, which returns a failed result
rerun_clone_from(w, ok) ==
    /\ rpc[w] = "clone_from"
    /\ IF ok /\ workdir = "absent"
       THEN workdir' = w /\ rpc' = [rpc EXCEPT ![w] = "cloned"]
       ELSE UNCHANGED workdir /\ rpc' = [rpc EXCEPT ![w] = "returned"]
    /\ UNCHANGED <<row, non_rerun_vars>>

\* scorer.py steps 2 and 3: get_repo_info reads the directory, then the
\* CodeAnalyzer call raises TypeError and the result is failed
rerun_analyze(w) ==
    /\ rpc[w] = "cloned"
    /\ rpc' = [rpc EXCEPT ![w] = "returned"]
    /\ UNCHANGED <<workdir, row, non_rerun_vars>>

\* scoring_worker.py lines 84-98: update_submission_results writes the row
rerun_save(w) ==
    /\ rpc[w] = "returned"
    /\ row' = [status |-> "failed", by |-> w]
    /\ rpc' = [rpc EXCEPT ![w] = "done"]
    /\ UNCHANGED <<workdir, non_rerun_vars>>

\* routes/submissions.py trigger_scoring on this id: the status is reset
\* whatever it is; the background task passes process_submission five
\* positional arguments and ends in TypeError before any statement of it
rerun_trigger ==
    /\ row' = [row EXCEPT !.status = "pending"]
    /\ UNCHANGED <<rpc, workdir, non_rerun_vars>>

NextRerun ==
    \/ \E w \in Workers : rerun_start(w)
    \/ \E w \in Workers : rerun_rmtree(w)
    \/ \E w \in Workers, ok \in BOOLEAN : rerun_clone_from(w, ok)
    \/ \E w \in Workers : rerun_analyze(w)
    \/ \E w \in Workers : rerun_save(w)
    \/ rerun_trigger

SpecRerun == InitSync /\ [][NextRerun]_vars

\* C39: at most one invocation of the pipeline is in progress for the
\* submission id; while it is, the row holds the status it persisted and no
\* re-trigger or other invocation has written over it, and the directory it
\* has cloned and is reading is still its own clone.
C39_OneRunPerSubmission ==
    /\ Cardinality(in_progress) <= 1
    /\ \A w \in in_progress : row = [status |-> "processing", by |-> w]
    /\ \A w \in Workers : rpc[w] = "cloned" => workdir = w

====
